---- MODULE Spec2Model ----
(***************************************************************************)
(* Identity resolution and crosswalk reconciliation of the Blue Button     *)
(* web server:                                                              *)
(*   apps/fhir/server/authentication.py  match_backend_patient_identifier   *)
(*   apps/mymedicare_cb/models.py        get_and_update_user,               *)
(*                                       create_beneficiary_record          *)
(***************************************************************************)
EXTENDS Integers, Sequences, FiniteSets, TLC

(***************************************************************************)
(* Bounds of the model.                                                     *)
(***************************************************************************)
\* largest declared total of a directory response
MaxTotal == 2
\* longest entry list of a directory response
MaxEntries == 2

(***************************************************************************)
(* Values.                                                                  *)
(***************************************************************************)
\* Python's None
None == "None"

\* record ids the directory may return in an entry ("" is an empty id)
FhirIds == {"", "f1", "f2"}

\* the hashes get_and_update_user may pass to the resolver
MbiHashes == {"m1", "m2"}
HicnHashes == {"h1", "h2"}

\* hash_lookup_mesg texts of match_backend_patient_identifier
MesgDupTotal == "Duplicate beneficiaries found in Patient resource bundle total"
MesgDupEntry == "Duplicate beneficiaries found in Patient resource bundle entry"
MesgFoundMbi == "FOUND beneficiary via mbi_hash"
MesgFoundHicn == "FOUND beneficiary via hicn_hash"
MesgNotFoundMbi == "FHIR ID NOT FOUND for MBI hash lookup"
MesgNotFoundBoth == "FHIR ID NOT FOUND for both MBI and HICN hash lookups"

(***************************************************************************)
(* A response of the directory to one identifier search: the HTTP status   *)
(* (ok), and the JSON bundle: the 'total' key (optional), the 'entry' key   *)
(* (optional), each entry carrying resource.id.                             *)
(***************************************************************************)
EntryLists == UNION {[1..n -> FhirIds] : n \in 0..MaxEntries}

HttpFailure ==
    [ok |-> FALSE, hasTotal |-> FALSE, total |-> 0, hasEntry |-> FALSE, entry |-> <<>>]

Responses ==
    {HttpFailure}
    \cup {[ok |-> TRUE, hasTotal |-> FALSE, total |-> 0, hasEntry |-> FALSE, entry |-> <<>>]}
    \cup {[ok |-> TRUE, hasTotal |-> FALSE, total |-> 0, hasEntry |-> TRUE, entry |-> e] :
            e \in EntryLists}
    \cup {[ok |-> TRUE, hasTotal |-> TRUE, total |-> t, hasEntry |-> FALSE, entry |-> <<>>] :
            t \in 0..MaxTotal}
    \cup {[ok |-> TRUE, hasTotal |-> TRUE, total |-> t, hasEntry |-> TRUE, entry |-> e] :
            t \in 0..MaxTotal, e \in EntryLists}

\* the response slot of a request that is never issued
NoResponse == HttpFailure

\* backend_data.get('total', 0)
GetTotal(backend_data) ==
    IF backend_data.hasTotal THEN backend_data.total ELSE 0

(***************************************************************************)
(* Audit events of the resolver.                                            *)
(***************************************************************************)
\* log_fhir_id_not_matched
LogFhirIdNotMatched(mbi_hash, hicn_hash, hash_lookup_type, hash_lookup_mesg) ==
    [type |-> "FhirIDNotFound",
     mbi_hash |-> mbi_hash, hicn_hash |-> hicn_hash,
     hash_lookup_type |-> hash_lookup_type, hash_lookup_mesg |-> hash_lookup_mesg]

\* log_fhir_id_matched
LogFhirIdMatched(fhir_id, mbi_hash, hicn_hash, hash_lookup_type, hash_lookup_mesg) ==
    [type |-> "FhirIDFound", fhir_id |-> fhir_id,
     mbi_hash |-> mbi_hash, hicn_hash |-> hicn_hash,
     hash_lookup_type |-> hash_lookup_type, hash_lookup_mesg |-> hash_lookup_mesg]

(***************************************************************************)
(* match_backend_patient_identifier.  A result is                           *)
(*   status            "ok", or the exception that left the function        *)
(*   fhir_id           the matched id (None unless status = "ok")           *)
(*   hash_lookup_type  "M" or "H" at the time the function was left         *)
(*   requests          the lookups issued, in order ("M" / "H")             *)
(*   log               the audit events emitted, in order                   *)
(***************************************************************************)
Result(status, fhir_id, hash_lookup_type, requests, events) ==
    [status |-> status, fhir_id |-> fhir_id, hash_lookup_type |-> hash_lookup_type,
     requests |-> requests, log |-> events]

\* faulty variant: a non-2xx answer is read as a bundle
RaiseForStatusNever(resp) == FALSE

\* lines 78 and 124: response.raise_for_status() raises HTTPError
RaiseForStatus(resp) == ~resp.ok

\* faulty variant: the primary lookup is issued whether or not mbi_hash is None
PrimaryLookupAlways(mbi_hash) == TRUE

\* line 70: if mbi_hash is not None
PrimaryLookupIssued(mbi_hash) == mbi_hash # None

\* lines 81-91: hash_lookup_mesg after the two duplicate checks of the mbi lookup
PrimaryDuplicateMesg(backend_data) ==
    LET mesg1 == IF GetTotal(backend_data) > 1 THEN MesgDupTotal ELSE None
    IN  IF backend_data.hasEntry /\ Len(backend_data.entry) > 1 /\ mesg1 # None
        THEN MesgDupEntry
        ELSE mesg1

\* lines 94-96: 'entry' in backend_data and backend_data['total'] raises KeyError
\* when the bundle has entries and no 'total' key
PrimaryTotalKeyError(backend_data) ==
    backend_data.hasEntry /\ ~backend_data.hasTotal

\* faulty variant: the mbi lookup never reports its match
PrimaryIsMatchNever(backend_data, hash_lookup_mesg) == FALSE

\* lines 94-99: the match test of the mbi lookup
PrimaryIsMatch(backend_data, hash_lookup_mesg) ==
    /\ backend_data.hasEntry
    /\ backend_data.total = 1
    /\ Len(backend_data.entry) = 1
    /\ hash_lookup_mesg = None

\* faulty variant: duplicates found by the mbi lookup end the resolution
PrimaryFallsThroughUnlessDuplicate(hash_lookup_mesg) == hash_lookup_mesg = None

\* lines 107-116: whatever the mbi lookup found short of a match, the function
\* goes on to the hicn lookup (there is no raise on this path)
PrimaryFallsThrough(hash_lookup_mesg) == TRUE

\* line 115: hash_lookup_type = "H"
FallbackLookupType == "H"

\* line 144: backend_data['entry'][0] raises IndexError on an empty entry list
FallbackIndexError(backend_data) == Len(backend_data.entry) = 0

\* lines 114-156: the hicn lookup and what follows it
FallbackLookup(mbi_hash, hicn_hash, requests0, log0, respH) ==
    LET requests == Append(requests0, "H")
        t == FallbackLookupType
        backend_data == respH
        notMatched(mesg) == Append(log0, LogFhirIdNotMatched(mbi_hash, hicn_hash, t, mesg))
    IN  IF RaiseForStatus(respH)
        THEN Result("HTTPError", None, t, requests, log0)
        ELSE IF GetTotal(backend_data) > 1
        THEN Result("UpstreamServerException", None, t, requests, notMatched(MesgDupTotal))
        ELSE IF backend_data.hasEntry /\ Len(backend_data.entry) > 1
        THEN Result("UpstreamServerException", None, t, requests, notMatched(MesgDupEntry))
        ELSE IF backend_data.hasEntry /\ ~backend_data.hasTotal
        THEN Result("KeyError", None, t, requests, log0)
        ELSE IF backend_data.hasEntry /\ backend_data.total = 1
        THEN IF FallbackIndexError(backend_data)
             THEN Result("IndexError", None, t, requests, log0)
             ELSE LET fhir_id == backend_data.entry[1]
                  IN  Result("ok", fhir_id, t, requests,
                             Append(log0, LogFhirIdMatched(fhir_id, mbi_hash, hicn_hash,
                                                           t, MesgFoundHicn)))
        ELSE Result("NotFound", None, t, requests, notMatched(MesgNotFoundBoth))

\* lines 107-112, then the hicn lookup: the mbi lookup did not return
AfterPrimary(mbi_hash, hicn_hash, requests, mesg0, respH) ==
    LET mesg == IF mesg0 = None THEN MesgNotFoundMbi ELSE mesg0
        events == <<LogFhirIdNotMatched(mbi_hash, hicn_hash, "M", mesg)>>
    IN  IF PrimaryFallsThrough(mesg0)
        THEN FallbackLookup(mbi_hash, hicn_hash, requests, events, respH)
        ELSE Result("UpstreamServerException", None, "M", requests, events)

\* lines 43-156.  respM and respH are what the directory answers to the mbi
\* and to the hicn request, if that request is issued.
match_backend_patient_identifier(mbi_hash, hicn_hash, respM, respH) ==
    IF PrimaryLookupIssued(mbi_hash)
    THEN LET backend_data == respM
             mesg == PrimaryDuplicateMesg(backend_data)
         IN  IF RaiseForStatus(respM)
             THEN Result("HTTPError", None, "M", <<"M">>, <<>>)
             ELSE IF PrimaryTotalKeyError(backend_data)
             THEN Result("KeyError", None, "M", <<"M">>, <<>>)
             ELSE IF PrimaryIsMatch(backend_data, mesg)
             THEN LET fhir_id == backend_data.entry[1]
                  IN  Result("ok", fhir_id, "M", <<"M">>,
                             <<LogFhirIdMatched(fhir_id, mbi_hash, hicn_hash,
                                                "M", MesgFoundMbi)>>)
             ELSE AfterPrimary(mbi_hash, hicn_hash, <<"M">>, mesg, respH)
    ELSE AfterPrimary(mbi_hash, hicn_hash, <<>>, None, respH)

(***************************************************************************)
(* The reconciler: get_and_update_user and create_beneficiary_record.       *)
(***************************************************************************)
\* the reconciliations one unit of work runs one after the other
MaxAttempts == 3

\* length of a hash (models.py line 167)
HashLen == 64

\* the concurrent units of work (one per inbound login)
Procs == {"p1", "p2"}

\* user_info of the identity provider: sub, hicn and mbi ("" is an empty claim)
Subjects == {"s1", "s2"}
Hicns == {"1", "2"}
Mbis == {"", "1a", "2B"}

\* str.upper()
Upper(s) == IF s = "1a" THEN "1A" ELSE s

\* hash_hicn of apps.fhir.bluebutton.models: a digest of HashLen characters
hash_hicn(hicn) == IF hicn = "1" THEN "h1" ELSE "h2"

\* hash_mbi of apps.fhir.bluebutton.models: None for None, else a digest
hash_mbi(mbi) ==
    IF mbi = None THEN None ELSE IF mbi = "1A" THEN "m1" ELSE "m2"

\* len() of a hash
HashLength(h) == IF h \in MbiHashes \cup HicnHashes THEN HashLen ELSE 0

\* the lookups of a resolver call that were issued and answered non-2xx
FailedLookups(r, respM, respH) ==
    {k \in {"M", "H"} :
        /\ \E i \in 1..Len(r.requests) : r.requests[i] = k
        /\ ~(IF k = "M" THEN respM.ok ELSE respH.ok)}

\* what match_backend_patient_identifier can return or raise for each pair of
\* hashes, over all answers of the directory
ResolverOutcomes ==
    UNION {{LET r == match_backend_patient_identifier(m, h, respM, respH)
            IN  [mbi_hash |-> m, hicn_hash |-> h,
                 failed |-> FailedLookups(r, respM, respH), r |-> r] :
                respM \in Responses, respH \in Responses} :
           m \in MbiHashes \cup {None}, h \in HicnHashes}

\* a Crosswalk row
Crosswalk(user, user_hicn_hash, user_mbi_hash, fhir_id, user_id_type) ==
    [user |-> user, user_hicn_hash |-> user_hicn_hash, user_mbi_hash |-> user_mbi_hash,
     fhir_id |-> fhir_id, user_id_type |-> user_id_type]

NoRow == Crosswalk(None, None, None, None, None)

\* arguments a caller may hand to create_beneficiary_record, malformed ones
\* included ("short" is a hash of the wrong length)
CreateUsernames == {None, ""} \cup Subjects
CreateHicnHashes == {None, "short"} \cup HicnHashes
CreateMbiHashes == {None, "short"} \cup MbiHashes
CreateFhirIds == {None} \cup FhirIds

\* faulty variant: the store enforces no unique constraint on Crosswalk
CrosswalkUniqueViolationNever(row, others) == FALSE

\* the unique constraints of the Crosswalk table (one row per user, unique
\* hicn hash, unique non-null mbi hash, unique fhir_id): row collides with others
CrosswalkUniqueViolation(row, others) ==
    \E o \in others :
        \/ o.user = row.user
        \/ o.user_hicn_hash = row.user_hicn_hash
        \/ (row.user_mbi_hash # None /\ o.user_mbi_hash = row.user_mbi_hash)
        \/ o.fhir_id = row.fhir_id

\* faulty variant: a failed transaction keeps what it had written
RolledBackKeepsWrites(committed, written) == committed \cup written

\* line 216, transaction.atomic(): the table after a transaction that had
\* written the rows `written` fails
RolledBack(committed, written) == committed

\* line 216: the table after the transaction commits
Committed(committed, written) == committed \cup written

\* events of log_get_and_update_user and log_create_beneficiary_record
LogGetAndUpdateUser(crosswalk, fhir_id, mbi_hash, hicn_hash, hash_lookup_type, mesg) ==
    [type |-> "mymedicare_cb:get_and_update_user", fhir_id |-> fhir_id,
     mbi_hash |-> mbi_hash, hicn_hash |-> hicn_hash,
     hash_lookup_type |-> hash_lookup_type, crosswalk |-> crosswalk, mesg |-> mesg]

LogCreateBeneficiaryRecord(username, fhir_id, user_mbi_hash, user_hicn_hash, mesg) ==
    [type |-> "mymedicare_cb:create_beneficiary_record", username |-> username,
     fhir_id |-> fhir_id, user_mbi_hash |-> user_mbi_hash,
     user_hicn_hash |-> user_hicn_hash, mesg |-> mesg]

\* lines 155-182: the events logged before the asserts of create_beneficiary_record
PreconditionLog(username, user_hicn_hash, user_mbi_hash, fhir_id) ==
    LET ev(mesg) == LogCreateBeneficiaryRecord(username, fhir_id, user_mbi_hash,
                                               user_hicn_hash, mesg)
        on(cond, mesg) == IF cond THEN <<ev(mesg)>> ELSE <<>>
    IN  on(username = None, "username can not be None")
        \o on(username = "", "username can not be an empty string")
        \o on(user_hicn_hash = None, "user_hicn_hash can not be None")
        \o on(user_hicn_hash # None /\ HashLength(user_hicn_hash) # HashLen,
              "incorrect user HICN hash format")
        \o on(user_mbi_hash # None /\ HashLength(user_mbi_hash) # HashLen,
              "incorrect user MBI hash format")
        \o on(fhir_id = None, "fhir_id can not be None")
        \o on(fhir_id = "", "fhir_id can not be an empty string")

\* faulty variant: nothing is asserted
PreconditionsHoldAlways(username, user_hicn_hash, user_mbi_hash, fhir_id) == TRUE

\* lines 184-192: the asserts of create_beneficiary_record all pass
PreconditionsHold(username, user_hicn_hash, user_mbi_hash, fhir_id) ==
    /\ username # None
    /\ username # ""
    /\ user_hicn_hash # None
    /\ HashLength(user_hicn_hash) = HashLen
    /\ user_mbi_hash # None => HashLength(user_mbi_hash) = HashLen
    /\ fhir_id # None
    /\ fhir_id # ""

(***************************************************************************)
(* State.                                                                   *)
(***************************************************************************)
VARIABLES
    call,       \* a call of match_backend_patient_identifier on its own: its
                \* arguments and the directory's answers
    ret,        \* what that call returned or raised
    users,      \* committed rows of the User table (usernames)
    crosswalks, \* committed rows of the Crosswalk table
    pc,         \* where each unit of work stands
    user_info,  \* its argument
    loc,        \* its local variables (hashes, resolver result)
    cw,         \* its in-memory user.crosswalk
    tx,         \* rows its open transaction has written
    outcome,    \* how its call of get_and_update_user ended
    log,        \* events it logged in get_and_update_user / create_beneficiary_record
    budget,     \* the reconciliations each unit of work may still start
    writes,     \* statements its current call has sent to the store, in order
    prev,       \* its previous call, if that returned: argument, resolver result, outcome
    http,       \* its request to the callback view: parameters, userinfo answer, events
                \* of authenticate, response
    pw          \* the password validator and the password history of one user

vars == <<call, ret, users, crosswalks, pc, user_info, loc, cw, tx, outcome, log, budget, writes,
          prev, http, pw>>
resolverVars == <<call, ret>>
storeVars == <<users, crosswalks>>

NoCall == [mbi_hash |-> None, hicn_hash |-> None, respM |-> NoResponse, respH |-> NoResponse,
           made |-> FALSE]
NoResult == Result("none", None, None, <<>>, <<>>)
NoUserInfo == [sub |-> None, hicn |-> None, mbi |-> None]
\* status: how the resolver call ended; failed: its lookups answered non-2xx
NoLoc == [mbi_hash |-> None, hicn_hash |-> None, fhir_id |-> None,
          hash_lookup_type |-> None, requests |-> <<>>,
          status |-> None, failed |-> {}]
NoTx == [users |-> {}, crosswalks |-> {}]
\* status: "none" while running, "ok" on return, else the exception raised;
\* path: "existing" / "created" on return; mesg: the exception's message
NoOutcome == [status |-> "none", user |-> None, path |-> None, mesg |-> None,
              reached |-> None]

NoPrev == [user_info |-> NoUserInfo, loc |-> NoLoc, outcome |-> NoOutcome, writes |-> <<>>]

\* no unit of work has started
\* no request to the callback view
NoHttpResponse == [status |-> 0, kind |-> "none"]
NoHttp == [stage |-> "none", code |-> None, state |-> None, token_ok |-> FALSE,
           userinfo_ok |-> FALSE, user_info |-> NoUserInfo, events |-> <<>>,
           exception |-> None, response |-> NoHttpResponse, approval |-> FALSE]

\* no password validator in use
NoPw == [stage |-> "none"]

InitIdle ==
    /\ http = [p \in Procs |-> NoHttp]
    /\ pw = NoPw
    /\ pc = [p \in Procs |-> "idle"]
    /\ user_info = [p \in Procs |-> NoUserInfo]
    /\ loc = [p \in Procs |-> NoLoc]
    /\ cw = [p \in Procs |-> NoRow]
    /\ tx = [p \in Procs |-> NoTx]
    /\ outcome = [p \in Procs |-> NoOutcome]
    /\ log = [p \in Procs |-> <<>>]
    /\ writes = [p \in Procs |-> <<>>]
    /\ prev = [p \in Procs |-> NoPrev]

\* the calls of match_backend_patient_identifier: every hash pair, every pair of
\* directory answers
Calls ==
    [mbi_hash : MbiHashes \cup {None}, hicn_hash : HicnHashes,
     respM : Responses, respH : Responses, made : {TRUE}]

\* the resolver on its own: the arguments and the directory's answers are drawn
InitResolver ==
    /\ call \in Calls
    /\ ret = NoResult
    /\ users = {}
    /\ crosswalks = {}
    /\ InitIdle
    /\ budget = [p \in Procs |-> 0]

\* one call of match_backend_patient_identifier
MatchCall ==
    /\ ret = NoResult
    /\ ret' = match_backend_patient_identifier(call.mbi_hash, call.hicn_hash,
                                                call.respM, call.respH)
    /\ UNCHANGED <<http, pw, call, users, crosswalks, pc, user_info, loc, cw, tx, outcome, log, budget,
                   writes, prev>>

NextResolver == MatchCall

SpecResolver == InitResolver /\ [][NextResolver]_vars

(***************************************************************************)
(* get_and_update_user, one unit of work p.                                 *)
(***************************************************************************)
\* logins handled one after the other, on an empty store
Init ==
    /\ call = NoCall
    /\ ret = NoResult
    /\ users = {}
    /\ crosswalks = {}
    /\ InitIdle
    /\ budget = [p \in Procs |-> IF p = "p1" THEN MaxAttempts ELSE 0]

\* stores earlier logins have left: accounts created through the hicn lookup
\* before an mbi was known
SeedRow1 == Crosswalk("s1", "h1", None, "f1", "H")
SeedRow2 == Crosswalk("s2", "h2", None, "f2", "H")
SeedStores == {{}, {SeedRow1}, {SeedRow1, SeedRow2}}

\* two logins at the same time, one reconciliation each
InitConcurrent ==
    /\ call = NoCall
    /\ ret = NoResult
    /\ crosswalks \in SeedStores
    /\ users = {x.user : x \in crosswalks}
    /\ InitIdle
    /\ budget = [p \in Procs |-> 1]

\* the call ends: returns user (status "ok") or raises
Ends(p, status, user, path, mesg) ==
    /\ pc' = [pc EXCEPT ![p] = "done"]
    /\ outcome' = [outcome EXCEPT ![p] =
                      [status |-> status, user |-> user, path |-> path, mesg |-> mesg,
                       reached |-> pc[p]]]

Emit(p, events) == log' = [log EXCEPT ![p] = log[p] \o events]

\* a statement (INSERT / UPDATE) goes to the store
Write(p, statement) == writes' = [writes EXCEPT ![p] = Append(writes[p], statement)]

\* rows other units of work have written and not committed
PendingUsers(p) == UNION {tx[q].users : q \in Procs \ {p}}
PendingCrosswalks(p) == UNION {tx[q].crosswalks : q \in Procs \ {p}}

\* faulty variant: an empty mbi goes on to be hashed
BlankMbiKept(mbi) == mbi

\* lines 75-76: an empty mbi is set to None
BlankMbiToNone(mbi) == IF mbi = "" THEN None ELSE mbi

\* lines 69-80: read user_info, upper-case the mbi, "" to None, hash
Start(p) ==
    /\ pc[p] \in {"idle", "done"}
    /\ budget[p] > 0
    /\ budget' = [budget EXCEPT ![p] = budget[p] - 1]
    /\ \E sub \in Subjects, hicn \in Hicns, mbi0 \in Mbis :
        LET mbi == BlankMbiToNone(Upper(mbi0))
        IN  /\ user_info' = [user_info EXCEPT ![p] = [sub |-> sub, hicn |-> hicn, mbi |-> mbi0]]
            /\ loc' = [loc EXCEPT ![p] =
                          [NoLoc EXCEPT !.hicn_hash = hash_hicn(hicn),
                                        !.mbi_hash = hash_mbi(mbi)]]
    /\ pc' = [pc EXCEPT ![p] = "resolve"]
    /\ outcome' = [outcome EXCEPT ![p] = NoOutcome]
    /\ cw' = [cw EXCEPT ![p] = NoRow]
    /\ log' = [log EXCEPT ![p] = <<>>]
    /\ writes' = [writes EXCEPT ![p] = <<>>]
    /\ prev' = [prev EXCEPT ![p] =
                    IF outcome[p].status = "ok"
                    THEN [user_info |-> user_info[p], loc |-> loc[p], outcome |-> outcome[p],
                          writes |-> writes[p]]
                    ELSE NoPrev]
    /\ UNCHANGED <<http, pw, call, ret, users, crosswalks, tx>>

\* the call was made by authenticate, for a request to the callback view
InRequest(p) == http[p].stage # "none"

\* faulty variant: an exception of the resolver is swallowed
ResolverRaisedNever(r) == FALSE

\* line 83: the call raised, and the exception leaves get_and_update_user
ResolverRaised(r) == r.status # "ok"

\* line 83: match_backend_patient_identifier returns or raises
Resolve(p) ==
    /\ pc[p] = "resolve"
    /\ \E o \in ResolverOutcomes :
        /\ o.mbi_hash = loc[p].mbi_hash
        /\ o.hicn_hash = loc[p].hicn_hash
        /\ loc' = [loc EXCEPT ![p].fhir_id = o.r.fhir_id,
                              ![p].hash_lookup_type = o.r.hash_lookup_type,
                              ![p].requests = o.r.requests,
                              ![p].status = o.r.status,
                              ![p].failed = o.failed]
        /\ http' = [http EXCEPT ![p].events = IF InRequest(p) THEN @ \o o.r.log ELSE @]
        /\ IF ResolverRaised(o.r)
           THEN Ends(p, o.r.status, None, None, None)
           ELSE pc' = [pc EXCEPT ![p] = "get_user"] /\ UNCHANGED outcome
    /\ UNCHANGED <<pw, call, ret, users, crosswalks, user_info, cw, tx, log, budget, writes, prev>>

\* lines 113-122 from the in-memory crosswalk c: the next step after the
\* mbi part of the existing-user path
TypeCheck(p, c, logged) ==
    LET l == loc[p]
        ev(x, mesg) == LogGetAndUpdateUser(x, l.fhir_id, l.mbi_hash, l.hicn_hash,
                                           l.hash_lookup_type, mesg)
    IN  IF c.user_id_type # l.hash_lookup_type
        THEN /\ cw' = [cw EXCEPT ![p] = [c EXCEPT !.user_id_type = l.hash_lookup_type]]
             /\ Emit(p, logged \o <<ev(c, "UPDATE user_id_type as it has changed from the previous lookup value")>>)
             /\ pc' = [pc EXCEPT ![p] = "save_type"]
             /\ UNCHANGED outcome
        ELSE /\ cw' = [cw EXCEPT ![p] = c]
             /\ Emit(p, logged \o <<ev(c, "RETURN existing beneficiary record")>>)
             /\ Ends(p, "ok", c.user, "existing", None)

\* faulty variant: the assert on the mbi hash is dropped
AssertMbiSkipped(c, mbi_hash) == TRUE

\* lines 98, 99, 105: the conditions asserted on the existing user's crosswalk
AssertHicn(c, hicn_hash) == c.user_hicn_hash = hicn_hash
AssertFhirId(c, fhir_id) == c.fhir_id = fhir_id
AssertMbi(c, mbi_hash) == c.user_mbi_hash = mbi_hash

\* faulty variant: the backfill does not take the supplied hash
BackfillMbiKeepsNull(c, mbi_hash) == c

\* line 110: user.crosswalk.user_mbi_hash = mbi_hash
BackfillMbi(c, mbi_hash) == [c EXCEPT !.user_mbi_hash = mbi_hash]

\* lines 85-109 and 123-130: User.objects.get(username=subject); the existing
\* user's crosswalk is compared with the resolved identity, a missing user
\* leads to create_beneficiary_record
GetUser(p) ==
    /\ pc[p] = "get_user"
    /\ LET l == loc[p]
           subject == user_info[p].sub
           ev(x, mesg) == LogGetAndUpdateUser(x, l.fhir_id, l.mbi_hash, l.hicn_hash,
                                              l.hash_lookup_type, mesg)
       IN  IF subject \in users
           THEN LET c == CHOOSE x \in crosswalks : x.user = subject
                    pre == (IF c.user_hicn_hash # l.hicn_hash
                            THEN <<ev(c, "Found user's hicn did not match")>> ELSE <<>>)
                           \o (IF c.fhir_id # l.fhir_id
                               THEN <<ev(c, "Found user's fhir_id did not match")>> ELSE <<>>)
                IN  IF ~AssertHicn(c, l.hicn_hash)
                    THEN /\ Emit(p, pre) /\ cw' = [cw EXCEPT ![p] = c]
                         /\ Ends(p, "AssertionError", None, None, "Found user's hicn did not match")
                    ELSE IF ~AssertFhirId(c, l.fhir_id)
                    THEN /\ Emit(p, pre) /\ cw' = [cw EXCEPT ![p] = c]
                         /\ Ends(p, "AssertionError", None, None, "Found user's fhir_id did not match")
                    ELSE IF c.user_mbi_hash # None
                    THEN LET pre2 == pre \o (IF c.user_mbi_hash # l.mbi_hash
                                              THEN <<ev(c, "Found user's mbi did not match")>>
                                              ELSE <<>>)
                         IN  IF ~AssertMbi(c, l.mbi_hash)
                             THEN /\ Emit(p, pre2)
                                  /\ cw' = [cw EXCEPT ![p] = c]
                                  /\ Ends(p, "AssertionError", None, None,
                                          "Found user's mbi did not match")
                             ELSE TypeCheck(p, c, pre2)
                    ELSE /\ Emit(p, pre \o <<ev(c, "UPDATE mbi_hash since previous value was NULL")>>)
                         /\ cw' = [cw EXCEPT ![p] = BackfillMbi(c, l.mbi_hash)]
                         /\ pc' = [pc EXCEPT ![p] = "save_mbi"]
                         /\ UNCHANGED outcome
           ELSE /\ pc' = [pc EXCEPT ![p] = "create"]
                /\ UNCHANGED <<cw, outcome, log>>
    /\ UNCHANGED <<http, pw, call, ret, users, crosswalks, user_info, loc, tx, budget, writes, prev>>

\* faulty variant: the save drops the rows of the other users
SaveCrosswalkAlone(p) == crosswalks' = {cw[p]}

\* user.crosswalk.save(): the in-memory row replaces the stored row of the user
SaveCrosswalk(p) ==
    LET others == {x \in crosswalks : x.user # cw[p].user}
    IN  crosswalks' = others \cup {cw[p]}

\* the save collides with a committed row / with a row of an open transaction
SaveCollides(p) ==
    CrosswalkUniqueViolation(cw[p], {x \in crosswalks : x.user # cw[p].user})
SaveBlocked(p) ==
    CrosswalkUniqueViolation(cw[p], {x \in PendingCrosswalks(p) : x.user # cw[p].user})

\* lines 110-111 then 113-122: user.crosswalk.save() of the mbi hash
SaveMbi(p) ==
    /\ pc[p] = "save_mbi"
    /\ ~SaveBlocked(p)
    /\ IF SaveCollides(p)
       THEN /\ Ends(p, "IntegrityError", None, None, None)
            /\ UNCHANGED <<crosswalks, cw, log, writes>>
       ELSE /\ SaveCrosswalk(p)
            /\ Write(p, "Crosswalk.save")
            /\ TypeCheck(p, cw[p], <<>>)
    /\ UNCHANGED <<http, pw, call, ret, users, user_info, loc, tx, budget, prev>>

\* lines 117-122: user.crosswalk.save() of the lookup type, then return
SaveType(p) ==
    /\ pc[p] = "save_type"
    /\ ~SaveBlocked(p)
    /\ IF SaveCollides(p)
       THEN /\ Ends(p, "IntegrityError", None, None, None)
            /\ UNCHANGED <<crosswalks, log, writes>>
       ELSE /\ SaveCrosswalk(p)
            /\ Write(p, "Crosswalk.save")
            /\ Emit(p, <<LogGetAndUpdateUser(cw[p], loc[p].fhir_id, loc[p].mbi_hash,
                                             loc[p].hicn_hash, loc[p].hash_lookup_type,
                                             "RETURN existing beneficiary record")>>)
            /\ Ends(p, "ok", cw[p].user, "existing", None)
    /\ UNCHANGED <<http, pw, call, ret, users, user_info, loc, cw, tx, budget, prev>>

(***************************************************************************)
(* create_beneficiary_record, called at line 130.                           *)
(***************************************************************************)
\* lines 155-192: the precondition logging and asserts of create_beneficiary_record
PreconditionsAsserted(p) ==
    /\ pc[p] = "create"
    /\ LET l == loc[p]
           username == user_info[p].sub
       IN  /\ Emit(p, PreconditionLog(username, l.hicn_hash, l.mbi_hash, l.fhir_id))
           /\ IF PreconditionsHold(username, l.hicn_hash, l.mbi_hash, l.fhir_id)
              THEN pc' = [pc EXCEPT ![p] = "chk_user"] /\ UNCHANGED outcome
              ELSE Ends(p, "AssertionError", None, None, None)
    /\ UNCHANGED <<http, pw, call, ret, users, crosswalks, user_info, loc, cw, tx, budget, writes, prev>>

\* one existence check of lines 194-214: raise ValidationError(mesg) or go on
ExistenceCheck(p, at, exists, mesg, next) ==
    /\ pc[p] = at
    /\ IF exists
       THEN /\ Emit(p, <<LogCreateBeneficiaryRecord(user_info[p].sub, loc[p].fhir_id,
                                                    loc[p].mbi_hash, loc[p].hicn_hash, mesg)>>)
            /\ Ends(p, "ValidationError", None, None, mesg)
       ELSE /\ pc' = [pc EXCEPT ![p] = next]
            /\ UNCHANGED <<outcome, log>>
    /\ UNCHANGED <<http, pw, call, ret, users, crosswalks, user_info, loc, cw, tx, budget, writes, prev>>

\* lines 194-197
CheckUserExists(p) ==
    ExistenceCheck(p, "chk_user", user_info[p].sub \in users,
                   "user already exists", "chk_hicn")

\* lines 199-202
CheckHicnExists(p) ==
    ExistenceCheck(p, "chk_hicn",
                   \E x \in crosswalks : x.user_hicn_hash = loc[p].hicn_hash,
                   "user_hicn_hash already exists", "chk_mbi")

\* lines 204-209
CheckMbiExists(p) ==
    ExistenceCheck(p, "chk_mbi",
                   /\ loc[p].mbi_hash # None
                   /\ \E x \in crosswalks : x.user_mbi_hash = loc[p].mbi_hash,
                   "user_mbi_hash already exists", "chk_fhir")

\* faulty variant: the fhir_id is not looked up
CheckFhirIdSkipped(p) ==
    ExistenceCheck(p, "chk_fhir", FALSE, "fhir_id already exists", "tx_user")

\* lines 211-214
CheckFhirIdExists(p) ==
    ExistenceCheck(p, "chk_fhir",
                   /\ loc[p].fhir_id # ""
                   /\ \E x \in crosswalks : x.fhir_id = loc[p].fhir_id,
                   "fhir_id already exists", "tx_user")

\* an exception inside the atomic block, or the request aborted: roll back
TxFails(p, status) ==
    /\ users' = RolledBack(users, tx[p].users)
    /\ crosswalks' = RolledBack(crosswalks, tx[p].crosswalks)
    /\ tx' = [tx EXCEPT ![p] = NoTx]
    /\ Ends(p, status, None, None, None)
    /\ UNCHANGED writes

\* lines 216-222: user.save() inside the atomic block; username is unique
TxUserSave(p) ==
    /\ pc[p] = "tx_user"
    /\ user_info[p].sub \notin PendingUsers(p)
    /\ IF user_info[p].sub \in users
       THEN TxFails(p, "IntegrityError")
       ELSE /\ tx' = [tx EXCEPT ![p].users = {user_info[p].sub}]
            /\ Write(p, "User.save")
            /\ pc' = [pc EXCEPT ![p] = "tx_crosswalk"]
            /\ UNCHANGED <<users, crosswalks, outcome>>
    /\ UNCHANGED <<http, pw, call, ret, user_info, loc, cw, log, budget, prev>>


\* faulty variant: the row is stored with the default user_id_type
NewCrosswalkDefaultType(username, user_hicn_hash, user_mbi_hash, fhir_id, user_id_type) ==
    Crosswalk(username, user_hicn_hash, user_mbi_hash, fhir_id, "H")

\* lines 223-227: the row Crosswalk.objects.create inserts
NewCrosswalk(username, user_hicn_hash, user_mbi_hash, fhir_id, user_id_type) ==
    Crosswalk(username, user_hicn_hash, user_mbi_hash, fhir_id, user_id_type)

\* lines 223-227: Crosswalk.objects.create inside the atomic block
TxCrosswalkCreate(p) ==
    /\ pc[p] = "tx_crosswalk"
    /\ LET row == NewCrosswalk(user_info[p].sub, loc[p].hicn_hash, loc[p].mbi_hash,
                               loc[p].fhir_id, loc[p].hash_lookup_type)
       IN  /\ ~CrosswalkUniqueViolation(row, PendingCrosswalks(p))
           /\ IF CrosswalkUniqueViolation(row, crosswalks)
              THEN TxFails(p, "IntegrityError")
              ELSE /\ tx' = [tx EXCEPT ![p].crosswalks = {row}]
                   /\ Write(p, "Crosswalk.create")
                   /\ pc' = [pc EXCEPT ![p] = "tx_profile"]
                   /\ UNCHANGED <<users, crosswalks, outcome>>
    /\ UNCHANGED <<http, pw, call, ret, user_info, loc, cw, log, budget, prev>>

\* line 231: UserProfile.objects.create inside the atomic block
TxProfileCreate(p) ==
    /\ pc[p] = "tx_profile"
    /\ pc' = [pc EXCEPT ![p] = "tx_group"]
    /\ Write(p, "UserProfile.create")
    /\ UNCHANGED <<http, pw, call, ret, users, crosswalks, user_info, loc, cw, tx, outcome, log, budget, prev>>

\* line 233: Group.objects.get(name='BlueButton') finds no such group
TxGroupMissing(p) ==
    /\ pc[p] = "tx_group"
    /\ TxFails(p, "Group.DoesNotExist")
    /\ UNCHANGED <<http, pw, call, ret, user_info, loc, cw, log, budget, prev>>

\* create_beneficiary_record was called at line 130, after the resolver returned
CalledFromLogin(p) == loc[p].status = "ok"

\* lines 233-235 and 139-141: the group is added, the block commits, the
\* creation is logged and the user returned
TxCommit(p) ==
    /\ pc[p] = "tx_group"
    /\ users' = Committed(users, tx[p].users)
    /\ crosswalks' = Committed(crosswalks, tx[p].crosswalks)
    /\ tx' = [tx EXCEPT ![p] = NoTx]
    /\ LET row == CHOOSE x \in tx[p].crosswalks : TRUE
       IN  /\ cw' = [cw EXCEPT ![p] = row]
           /\ Emit(p, IF CalledFromLogin(p)
                       THEN <<LogGetAndUpdateUser(row, loc[p].fhir_id, loc[p].mbi_hash,
                                                  loc[p].hicn_hash, loc[p].hash_lookup_type,
                                                  "CREATE beneficiary record")>>
                       ELSE <<>>)
    /\ Ends(p, "ok", user_info[p].sub, "created", None)
    /\ Write(p, "groups.add")
    /\ UNCHANGED <<http, pw, call, ret, user_info, loc, budget, prev>>

\* the surrounding request is aborted while the atomic block is open
TxAbort(p) ==
    /\ pc[p] \in {"tx_user", "tx_crosswalk", "tx_profile", "tx_group"}
    /\ TxFails(p, "Aborted")
    /\ UNCHANGED <<http, pw, call, ret, user_info, loc, cw, log, budget, prev>>

Next ==
    \E p \in Procs :
        \/ Start(p)
        \/ Resolve(p)
        \/ GetUser(p)
        \/ PreconditionsAsserted(p)
        \/ SaveMbi(p)
        \/ SaveType(p)
        \/ CheckUserExists(p)
        \/ CheckHicnExists(p)
        \/ CheckMbiExists(p)
        \/ CheckFhirIdExists(p)
        \/ TxUserSave(p)
        \/ TxCrosswalkCreate(p)
        \/ TxProfileCreate(p)
        \/ TxGroupMissing(p)
        \/ TxCommit(p)
        \/ TxAbort(p)

Spec == Init /\ [][Next]_vars

\* create_beneficiary_record called on its own with any arguments, on a store
\* earlier logins have left; one login follows
InitCreate ==
    /\ call = NoCall
    /\ ret = NoResult
    /\ crosswalks \in SeedStores
    /\ users = {x.user : x \in crosswalks}
    /\ \E username \in CreateUsernames, user_hicn_hash \in CreateHicnHashes,
          user_mbi_hash \in CreateMbiHashes, fhir_id \in CreateFhirIds,
          user_id_type \in {"M", "H"} :
        /\ user_info = [p \in Procs |->
                           IF p = "p1" THEN [NoUserInfo EXCEPT !.sub = username]
                           ELSE NoUserInfo]
        /\ loc = [p \in Procs |->
                     IF p = "p1"
                     THEN [NoLoc EXCEPT !.hicn_hash = user_hicn_hash,
                                        !.mbi_hash = user_mbi_hash,
                                        !.fhir_id = fhir_id,
                                        !.hash_lookup_type = user_id_type]
                     ELSE NoLoc]
    /\ http = [p \in Procs |-> NoHttp]
    /\ pw = NoPw
    /\ pc = [p \in Procs |-> IF p = "p1" THEN "create" ELSE "idle"]
    /\ cw = [p \in Procs |-> NoRow]
    /\ tx = [p \in Procs |-> NoTx]
    /\ outcome = [p \in Procs |-> NoOutcome]
    /\ log = [p \in Procs |-> <<>>]
    /\ writes = [p \in Procs |-> <<>>]
    /\ prev = [p \in Procs |-> NoPrev]
    /\ budget = [p \in Procs |-> IF p = "p1" THEN 1 ELSE 0]

SpecCreate == InitCreate /\ [][Next]_vars

SpecConcurrent == InitConcurrent /\ [][Next]_vars

(***************************************************************************)
(* The callback view: apps/mymedicare_cb/views.py                          *)
(***************************************************************************)

\* what the userinfo endpoint may answer: identifiers as the provider sends
\* them, with surrounding blanks, in lower case, empty, or of a wrong format
SlsSubjects == {"", " s1", "s2"}
SlsHicns == {"", " 1", "2"}
SlsMbis == {"", " ", " 1a", "2B", "xx"}

\* the state parameters of a request; "st1" is the one AnonUserState row
StateParams == {None, "st0", "st1"}
AnonUserStates == {"st1"}

\* str.strip()
Strip(s) ==
    CASE s = " s1" -> "s1"
      [] s = " 1" -> "1"
      [] s = " 1a" -> "1a"
      [] s = " " -> ""
      [] OTHER -> s

\* is_mbi_format_valid of apps.mymedicare_cb.validators: the first component
IsMbiFormatValid(mbi) == mbi \in {"1A", "2B"}

\* the identifiers as they reach the view, before any hashing
RawIdentifiers ==
    (SlsHicns \cup SlsMbis \cup {Strip(s) : s \in SlsHicns \cup SlsMbis}
     \cup {Upper(Strip(s)) : s \in SlsMbis} \cup Hicns \cup Mbis \cup {Upper(s) : s \in Mbis})
    \ {""}

\* the event of log_authenticate_start, from the arguments it is called with
LogAuthenticateStart(sls_status, sls_status_mesg, sls_subject, sls_mbi_format_valid, sls_hicn_hash, sls_mbi_hash) ==
    [type |-> "Authentication:start", sls_status |-> sls_status,
     sls_status_mesg |-> sls_status_mesg, sub |-> sls_subject,
     sls_mbi_format_valid |-> sls_mbi_format_valid,
     sls_hicn_hash |-> sls_hicn_hash, sls_mbi_hash |-> sls_mbi_hash]

\* the event of log_authenticate_success
LogAuthenticateSuccess(sls_subject, username) ==
    [type |-> "Authentication:success", sub |-> sls_subject, user |-> username]

\* faulty variant: the identifiers go to the log as the provider sent them
IdentityGatheredRaw(sls_subject, sls_hicn, sls_mbi, sls_mbi_format_valid) ==
    LogAuthenticateStart("OK", None, sls_subject, sls_mbi_format_valid, sls_hicn, sls_mbi)

\* lines 153-155: the event of the identity information gathered
IdentityGathered(sls_subject, sls_hicn, sls_mbi, sls_mbi_format_valid) ==
    LogAuthenticateStart("OK", None, sls_subject, sls_mbi_format_valid,
                         hash_hicn(sls_hicn), hash_mbi(sls_mbi))

\* faulty variant: an empty hicn is let through to get_and_update_user
AuthenticateRejectsHicnUnchecked(code, token_ok, userinfo_ok, sls_subject, sls_hicn, sls_mbi) ==
    LET fail(mesg, sub, valid, hicn_hash, mbi_hash) ==
            LogAuthenticateStart("FAIL", mesg, sub, valid, hicn_hash, mbi_hash)
    IN  IF code = None
        THEN [exception |-> "ValidationError",
              event |-> fail("The code parameter is required", None, None, None, None)]
        ELSE IF ~token_ok
        THEN [exception |-> "UpstreamServerException",
              event |-> fail("Token request response error", None, None, None, None)]
        ELSE IF ~userinfo_ok
        THEN [exception |-> "UpstreamServerException",
              event |-> fail("User info request response error", None, None, None, None)]
        ELSE IF sls_subject = ""
        THEN [exception |-> "UpstreamServerException",
              event |-> fail("User info sub cannot be empty", None, None, None, None)]
        ELSE IF ~IsMbiFormatValid(sls_mbi) /\ sls_mbi # None
        THEN [exception |-> "UpstreamServerException",
              event |-> fail("User info MBI format is not valid. ", sls_subject, "False",
                             hash_hicn(sls_hicn), hash_mbi(sls_mbi))]
        ELSE [exception |-> None, event |-> None]

\* lines 51-150: the FAIL event authenticate logs and the exception it raises
\* before get_and_update_user is reached; exception None when it goes on
AuthenticateRejects(code, token_ok, userinfo_ok, sls_subject, sls_hicn, sls_mbi) ==
    LET fail(mesg, sub, valid, hicn_hash, mbi_hash) ==
            LogAuthenticateStart("FAIL", mesg, sub, valid, hicn_hash, mbi_hash)
    IN  IF code = None
        THEN [exception |-> "ValidationError",
              event |-> fail("The code parameter is required", None, None, None, None)]
        ELSE IF ~token_ok
        THEN [exception |-> "UpstreamServerException",
              event |-> fail("Token request response error", None, None, None, None)]
        ELSE IF ~userinfo_ok
        THEN [exception |-> "UpstreamServerException",
              event |-> fail("User info request response error", None, None, None, None)]
        ELSE IF sls_subject = ""
        THEN [exception |-> "UpstreamServerException",
              event |-> fail("User info sub cannot be empty", None, None, None, None)]
        ELSE IF sls_hicn = ""
        THEN [exception |-> "UpstreamServerException",
              event |-> fail("User info HICN cannot be empty.", sls_subject, None, None, None)]
        ELSE IF ~IsMbiFormatValid(sls_mbi) /\ sls_mbi # None
        THEN [exception |-> "UpstreamServerException",
              event |-> fail("User info MBI format is not valid. ", sls_subject, "False",
                             hash_hicn(sls_hicn), hash_mbi(sls_mbi))]
        ELSE [exception |-> None, event |-> None]

\* faulty variant: a failure of the directory request is answered like an
\* UpstreamServerException
CallbackCatchesAll(exception) ==
    IF exception = "ValidationError" THEN [status |-> 400, kind |-> "JsonResponse"]
    ELSE IF exception = "NotFound" THEN [status |-> 404, kind |-> "TemplateResponse"]
    ELSE [status |-> 502, kind |-> "JsonResponse"]

\* lines 172-188: the except clauses around authenticate(request); any other
\* exception leaves the view
CallbackCatches(exception) ==
    IF exception = "ValidationError" THEN [status |-> 400, kind |-> "JsonResponse"]
    ELSE IF exception = "NotFound" THEN [status |-> 404, kind |-> "TemplateResponse"]
    ELSE IF exception = "UpstreamServerException" THEN [status |-> 502, kind |-> "JsonResponse"]
    ELSE [status |-> 0, kind |-> "raised"]

\* lines 32-163: authenticate up to the call of get_and_update_user, which gets
\* the subject and the hashes of lines 137-138; a rejection is answered by the
\* except clauses of callback
Authenticate(p) ==
    /\ pc[p] = "idle"
    /\ http[p].stage = "none"
    /\ budget[p] > 0
    /\ budget' = [budget EXCEPT ![p] = budget[p] - 1]
    /\ \E code \in {None, "c1"}, state \in StateParams, token_ok \in BOOLEAN,
          userinfo_ok \in BOOLEAN, sub \in SlsSubjects, hicn \in SlsHicns, mbi0 \in SlsMbis :
        LET sls_subject == Strip(sub)
            sls_hicn == Strip(hicn)
            sls_mbi == BlankMbiToNone(Upper(Strip(mbi0)))
            rej == AuthenticateRejects(code, token_ok, userinfo_ok, sls_subject, sls_hicn,
                                       sls_mbi)
            req == [NoHttp EXCEPT !.code = code, !.state = state, !.token_ok = token_ok,
                                  !.userinfo_ok = userinfo_ok,
                                  !.user_info = [sub |-> sub, hicn |-> hicn, mbi |-> mbi0]]
        IN  IF rej.exception # None
            THEN /\ http' = [http EXCEPT ![p] =
                                [req EXCEPT !.stage = "responded",
                                            !.events = <<rej.event>>,
                                            !.exception = rej.exception,
                                            !.response = CallbackCatches(rej.exception)]]
                 /\ UNCHANGED <<pc, user_info, loc>>
            ELSE /\ http' = [http EXCEPT ![p] =
                                [req EXCEPT !.stage = "get_and_update_user",
                                            !.events = <<IdentityGathered(sls_subject, sls_hicn,
                                                                          sls_mbi, "True")>>]]
                 /\ pc' = [pc EXCEPT ![p] = "resolve"]
                 /\ user_info' = [user_info EXCEPT ![p] =
                                     [sub |-> sls_subject, hicn |-> sls_hicn, mbi |-> mbi0]]
                 /\ loc' = [loc EXCEPT ![p] =
                               [NoLoc EXCEPT !.hicn_hash = hash_hicn(sls_hicn),
                                             !.mbi_hash = hash_mbi(sls_mbi)]]
    /\ UNCHANGED <<pw, call, ret, users, crosswalks, cw, tx, outcome, log, writes, prev>>

\* lines 166-169 and 172-214: get_and_update_user has returned or raised; the
\* view answers
Callback(p) ==
    /\ http[p].stage = "get_and_update_user"
    /\ pc[p] = "done"
    /\ IF outcome[p].status # "ok"
       THEN http' = [http EXCEPT ![p].stage = "responded",
                                 ![p].exception = outcome[p].status,
                                 ![p].response = CallbackCatches(outcome[p].status)]
       ELSE LET success == LogAuthenticateSuccess(user_info[p].sub, outcome[p].user)
            IN  IF http[p].state = None \/ http[p].state \notin AnonUserStates
                THEN http' = [http EXCEPT ![p].stage = "responded",
                                          ![p].events = Append(@, success),
                                          ![p].response = [status |-> 400,
                                                           kind |-> "JsonResponse"]]
                ELSE http' = [http EXCEPT ![p].stage = "responded",
                                          ![p].events = Append(@, success),
                                          ![p].approval = TRUE,
                                          ![p].response = [status |-> 302,
                                                           kind |-> "HttpResponseRedirect"]]
    /\ UNCHANGED <<pw, call, ret, users, crosswalks, pc, user_info, loc, cw, tx, outcome, log,
                   budget, writes, prev>>

\* one request to the callback view, on a store earlier logins have left
InitCallback ==
    /\ call = NoCall
    /\ ret = NoResult
    /\ crosswalks \in SeedStores
    /\ users = {x.user : x \in crosswalks}
    /\ InitIdle
    /\ budget = [p \in Procs |-> IF p = "p1" THEN 1 ELSE 0]

NextCallback ==
    \E p \in Procs :
        \/ Authenticate(p)
        \/ Resolve(p)
        \/ GetUser(p)
        \/ PreconditionsAsserted(p)
        \/ SaveMbi(p)
        \/ SaveType(p)
        \/ CheckUserExists(p)
        \/ CheckHicnExists(p)
        \/ CheckMbiExists(p)
        \/ CheckFhirIdExists(p)
        \/ TxUserSave(p)
        \/ TxCrosswalkCreate(p)
        \/ TxProfileCreate(p)
        \/ TxGroupMissing(p)
        \/ TxCommit(p)
        \/ TxAbort(p)
        \/ Callback(p)

SpecCallback == InitCallback /\ [][NextCallback]_vars

(***************************************************************************)
(* The password validator: apps/accounts/validators.py                     *)
(***************************************************************************)

\* seconds on the clock, and password changes one user attempts
MaxTime == 4
MaxChanges == 3

\* OPTIONS a deployment may give the validator, in seconds
Durations == {-1, 0, 1, 2, 3}

\* the password of User.objects.create_user, and those a user may change to
Passwords == {"pw0", "pw1", "pw2"}

MesgReuse == "You can not use a password that is already used in this application within password re-use interval"
MesgMinAge == "You can not change password that does not satisfy minimum password age"

\* faulty variant: password_min_age is not compared with password_expire
OptionsAcceptedTwoAsserts(password_min_age, password_reuse_interval, password_expire) ==
    /\ (password_min_age > 0 /\ password_reuse_interval > 0) =>
          password_min_age <= password_reuse_interval
    /\ (password_expire > 0 /\ password_reuse_interval > 0) =>
          password_expire <= password_reuse_interval

\* lines 25-33: the asserts of __init__
OptionsAccepted(password_min_age, password_reuse_interval, password_expire) ==
    /\ (password_min_age > 0 /\ password_reuse_interval > 0) =>
          password_min_age <= password_reuse_interval
    /\ (password_expire > 0 /\ password_reuse_interval > 0) =>
          password_expire <= password_reuse_interval
    /\ (password_min_age > 0 /\ password_expire > 0) =>
          password_min_age <= password_expire

\* a PasswordHistory row of the user's one UserPasswordHistoryConfig
PasswordHistory(password, date) == [password |-> password, date |-> date]

\* faulty variant: without a reuse interval no past password is looked at
PasswdsOnlyInInterval(history, cur_time_utc, password_reuse_interval) ==
    IF password_reuse_interval > 0
    THEN {e \in history : e.date > cur_time_utc - password_reuse_interval}
    ELSE {}

\* lines 66-76: the rows validate looks at
Passwds(history, cur_time_utc, password_reuse_interval) ==
    IF password_reuse_interval > 0
    THEN {e \in history : e.date > cur_time_utc - password_reuse_interval}
    ELSE history

\* passwds.first() under order_by('-date'), for a non-empty set of rows
First(passwds) == CHOOSE e \in passwds : \A f \in passwds : f.date <= e.date

\* lines 90-91: the last change is too recent
TooSoon(passwds, cur_time_utc, password_min_age) ==
    /\ password_min_age > 0
    /\ passwds # {}
    /\ cur_time_utc - First(passwds).date <= password_min_age

NoValidationError == [code |-> None, mesg |-> None]

\* lines 38-97: validate returns (NoValidationError) or raises ValidationError
validate(password, user_ok, v, history, cur_time_utc) ==
    LET passwds == Passwds(history, cur_time_utc, v.password_reuse_interval)
    IN  IF ~user_ok
        THEN NoValidationError
        ELSE IF \E e \in passwds : e.password = password
        THEN [code |-> "password_used", mesg |-> MesgReuse]
        ELSE IF TooSoon(passwds, cur_time_utc, v.password_min_age)
        THEN [code |-> "password_used", mesg |-> MesgMinAge]
        ELSE NoValidationError

\* the validator before its construction, for a user created at time 0
NewPw ==
    [stage |-> "new", password_min_age |-> 0, password_reuse_interval |-> 0,
     password_expire |-> 0, now |-> 0, password |-> "pw0",
     history |-> {PasswordHistory("pw0", 0)}, changes |-> MaxChanges,
     new_password |-> None, error |-> NoValidationError]

\* lines 13-36: __init__ with the OPTIONS of the deployment
Construct ==
    /\ pw.stage = "new"
    /\ \E password_min_age \in Durations, password_reuse_interval \in Durations,
          password_expire \in Durations :
        pw' = [pw EXCEPT !.stage = IF OptionsAccepted(password_min_age,
                                                      password_reuse_interval,
                                                      password_expire)
                                   THEN "ready" ELSE "AssertionError",
                         !.password_min_age = password_min_age,
                         !.password_reuse_interval = password_reuse_interval,
                         !.password_expire = password_expire]
    /\ UNCHANGED <<http, call, ret, users, crosswalks, pc, user_info, loc, cw, tx, outcome, log,
                   budget, writes, prev>>

\* time passes (the time.sleep of the tests)
Sleep ==
    /\ pw.stage = "ready"
    /\ pw.now < MaxTime
    /\ pw' = [pw EXCEPT !.now = pw.now + 1]
    /\ UNCHANGED <<http, call, ret, users, crosswalks, pc, user_info, loc, cw, tx, outcome, log,
                   budget, writes, prev>>

\* password_changed of the library's UniquePasswordsValidator: the new hash
\* goes to the history with the current date unless it is on record already
Recorded(history, password, date) ==
    IF \E e \in history : e.password = password
    THEN history
    ELSE history \cup {PasswordHistory(password, date)}

\* a post to password_change by the logged-in user: validate, and when it
\* does not raise, the password is set and password_changed records it
PasswordChange ==
    /\ pw.stage = "ready"
    /\ pw.changes > 0
    /\ \E new_password \in Passwords :
        LET error == validate(new_password, TRUE, pw, pw.history, pw.now)
        IN  IF error # NoValidationError
            THEN pw' = [pw EXCEPT !.changes = pw.changes - 1,
                                  !.new_password = new_password,
                                  !.error = error]
            ELSE pw' = [pw EXCEPT !.changes = pw.changes - 1,
                                  !.new_password = new_password,
                                  !.error = error,
                                  !.password = new_password,
                                  !.history = Recorded(pw.history, new_password, pw.now)]
    /\ UNCHANGED <<http, call, ret, users, crosswalks, pc, user_info, loc, cw, tx, outcome, log,
                   budget, writes, prev>>

InitPassword ==
    /\ call = NoCall
    /\ ret = NoResult
    /\ users = {}
    /\ crosswalks = {}
    /\ http = [p \in Procs |-> NoHttp]
    /\ pw = NewPw
    /\ pc = [p \in Procs |-> "idle"]
    /\ user_info = [p \in Procs |-> NoUserInfo]
    /\ loc = [p \in Procs |-> NoLoc]
    /\ cw = [p \in Procs |-> NoRow]
    /\ tx = [p \in Procs |-> NoTx]
    /\ outcome = [p \in Procs |-> NoOutcome]
    /\ log = [p \in Procs |-> <<>>]
    /\ writes = [p \in Procs |-> <<>>]
    /\ prev = [p \in Procs |-> NoPrev]
    /\ budget = [p \in Procs |-> 0]

NextPassword ==
    \/ Construct
    \/ Sleep
    \/ PasswordChange

SpecPassword == InitPassword /\ [][NextPassword]_vars

\* faulty variant: the last configuration alone decides
password_expired_last(is_staff, is_superuser, password_expire, configs, cur_time_utc) ==
    IF is_staff \/ is_superuser
    THEN FALSE
    ELSE IF password_expire <= 0
    THEN FALSE
    ELSE /\ configs # <<>>
         /\ configs[Len(configs)] # {}
         /\ cur_time_utc - First(configs[Len(configs)]).date >= password_expire

\* lines 107-129: password_expired; configs holds, for each
\* UserPasswordHistoryConfig of the user, its PasswordHistory rows
password_expired(is_staff, is_superuser, password_expire, configs, cur_time_utc) ==
    IF is_staff \/ is_superuser
    THEN FALSE
    ELSE IF password_expire <= 0
    THEN FALSE
    ELSE \E i \in 1..Len(configs) :
            /\ configs[i] # {}
            /\ cur_time_utc - First(configs[i]).date >= password_expire

\* the PasswordHistory rows of one user, over all configurations
MaxRows == 3

\* the rows one configuration may hold at a time, none dated later
Histories(cur_time_utc) ==
    {h \in SUBSET {PasswordHistory("pw0", d) : d \in 0..cur_time_utc} : Cardinality(h) <= MaxRows}

RECURSIVE RowCount(_)
RowCount(configs) ==
    IF configs = <<>> THEN 0 ELSE Cardinality(Head(configs)) + RowCount(Tail(configs))

\* the users password_expired is asked about: up to MaxConfigs configurations
MaxConfigs == 2
ConfigLists(cur_time_utc) ==
    {c \in UNION {[1..n -> Histories(cur_time_utc)] : n \in 0..MaxConfigs} :
        RowCount(c) <= MaxRows}

\* a call of password_expired on its own
InitExpired ==
    /\ call = NoCall
    /\ ret = NoResult
    /\ users = {}
    /\ crosswalks = {}
    /\ pc = [p \in Procs |-> "idle"]
    /\ user_info = [p \in Procs |-> NoUserInfo]
    /\ loc = [p \in Procs |-> NoLoc]
    /\ cw = [p \in Procs |-> NoRow]
    /\ tx = [p \in Procs |-> NoTx]
    /\ outcome = [p \in Procs |-> NoOutcome]
    /\ log = [p \in Procs |-> <<>>]
    /\ writes = [p \in Procs |-> <<>>]
    /\ prev = [p \in Procs |-> NoPrev]
    /\ budget = [p \in Procs |-> 0]
    /\ http = [p \in Procs |-> NoHttp]
    /\ \E cur_time_utc \in 0..MaxTime :
        \E configs \in ConfigLists(cur_time_utc), is_staff \in BOOLEAN,
           is_superuser \in BOOLEAN, password_expire \in Durations :
            pw = [stage |-> "password_expired", is_staff |-> is_staff,
                  is_superuser |-> is_superuser, password_expire |-> password_expire,
                  now |-> cur_time_utc, configs |-> configs, expired |-> FALSE]

PasswordExpired ==
    /\ pw.stage = "password_expired"
    /\ pw' = [pw EXCEPT !.stage = "returned",
                        !.expired = password_expired(pw.is_staff, pw.is_superuser,
                                                     pw.password_expire, pw.configs, pw.now)]
    /\ UNCHANGED <<http, call, ret, users, crosswalks, pc, user_info, loc, cw, tx, outcome, log,
                   budget, writes, prev>>

NextExpired == PasswordExpired

SpecExpired == InitExpired /\ [][NextExpired]_vars

(***************************************************************************)
(* Claims about the store under concurrent reconciliations.                 *)
(***************************************************************************)
Done(p) == pc[p] = "done"
TxPcs == {"tx_user", "tx_crosswalk", "tx_profile", "tx_group"}

C2_RaceLoserGetsDuplicateRecord ==
    \A p \in Procs : \A q \in Procs \ {p} :
        (/\ Done(p) /\ Done(q)
         /\ user_info[p].sub = user_info[q].sub
         /\ outcome[p].path = "created"
         /\ outcome[q].reached \in TxPcs
         /\ outcome[q].status \notin {"Aborted", "Group.DoesNotExist"})
            => /\ outcome[q].status = "ValidationError"
               /\ Cardinality({x \in crosswalks : x.user = user_info[p].sub}) = 1

\* C5: at every state each account has exactly one Crosswalk and each
\* Crosswalk its account; a creation that fails or is aborted inside the
\* transaction leaves the store as it was.
C5_OneToOne ==
    /\ \A u \in users : Cardinality({x \in crosswalks : x.user = u}) = 1
    /\ \A x \in crosswalks : x.user \in users

C5_FailureLeavesNothing ==
    \A p \in Procs :
        (pc[p] \in TxPcs /\ pc'[p] = "done" /\ outcome'[p].status # "ok")
            => users' = users /\ crosswalks' = crosswalks

C5_AtomicCreation == [](C5_OneToOne) /\ [][C5_FailureLeavesNothing]_vars

\* a creation failed at the default-group hook, after both inserts, while
\* another creation went through
C5_Witness ==
    \E p \in Procs : \E q \in Procs \ {p} :
        /\ Done(p) /\ outcome[p].status = "Group.DoesNotExist"
        /\ user_info[p].sub \notin users
        /\ Done(q) /\ outcome[q].path = "created"

(***************************************************************************)
(* Claims about get_and_update_user, logins handled one after the other.    *)
(***************************************************************************)
\* C11: a non-2xx answer to either lookup leaves the resolver as an error
\* (never as a match or as not found), no lookup is issued twice, after a failed
\* mbi lookup no hicn lookup is issued, and the call writes nothing.
C11_TransportState ==
    \A p \in Procs :
        (Done(p) /\ loc[p].failed # {})
            => /\ outcome[p].status = "HTTPError"
               /\ outcome[p].user = None
               /\ writes[p] = <<>>

C11_TransportStep ==
    \A p \in Procs :
        (pc[p] = "resolve" /\ pc'[p] # "resolve")
            => LET l == loc'[p]
               IN  /\ \A i \in 1..Len(l.requests) : \A j \in 1..Len(l.requests) :
                          i # j => l.requests[i] # l.requests[j]
                   /\ "M" \in l.failed => l.requests = <<"M">>
                   /\ l.failed # {}
                        => /\ pc'[p] = "done"
                           /\ outcome'[p].status = "HTTPError"
                           /\ users' = users
                           /\ crosswalks' = crosswalks

C11_TransportFailurePropagates == [](C11_TransportState) /\ [][C11_TransportStep]_vars

\* the mbi lookup of a login of an existing user failed
C11_Witness ==
    \E p \in Procs :
        /\ Done(p) /\ loc[p].failed = {"M"}
        /\ user_info[p].sub \in users

\* C20: when the resolver raises (UpstreamServerException, NotFound or an
\* HTTP error), get_and_update_user ends with that same exception, has not
\* looked up the user, and has written nothing: accounts and Crosswalks are
\* as before the call.
C20_ResolverFailureState ==
    \A p \in Procs :
        loc[p].status \notin {None, "ok"}
            => /\ Done(p)
               /\ outcome[p].status = loc[p].status
               /\ outcome[p].reached = "resolve"
               /\ cw[p] = NoRow
               /\ log[p] = <<>>
               /\ writes[p] = <<>>

C20_ResolverFailureStep ==
    \A p \in Procs :
        (pc[p] = "resolve" /\ loc'[p].status \notin {None, "ok"})
            => users' = users /\ crosswalks' = crosswalks

C20_ResolverFailurePropagates ==
    [](C20_ResolverFailureState) /\ [][C20_ResolverFailureStep]_vars

\* a login of an existing user whose identity the directory does not know
C20_Witness ==
    \E p \in Procs :
        /\ Done(p) /\ loc[p].status \in {"NotFound", "UpstreamServerException"}
        /\ outcome[p].status = loc[p].status
        /\ user_info[p].sub \in users

\* user.crosswalk of an existing user
StoredCrosswalk(sub) == CHOOSE x \in crosswalks : x.user = sub

\* the call p has finished repeats its previous call: same user_info, same
\* answers of the resolver
RepeatsPrevious(p) ==
    /\ prev[p].outcome.status = "ok"
    /\ prev[p].user_info = user_info[p]
    /\ prev[p].loc = loc[p]

\* C12: reconciling twice in a row with identical inputs and identical
\* directory answers returns the same account both times, and the second call
\* sends no write to the store (no Crosswalk field changes), also when the
\* stored and the supplied mbi hash are both absent.
C12_RepeatWritesNothing ==
    \A p \in Procs :
        (Done(p) /\ RepeatsPrevious(p))
            => /\ outcome[p].status = "ok"
               /\ outcome[p].user = prev[p].outcome.user
               /\ writes[p] = <<>>

\* C13: an existing account with no stored mbi hash has the supplied non-null
\* hash stored once a login returns; a stored non-null mbi hash is never
\* replaced by a later login.
C13_BackfillStored ==
    \A p \in Procs :
        (/\ Done(p) /\ outcome[p].status = "ok" /\ outcome[p].path = "existing"
         /\ loc[p].mbi_hash # None)
            => StoredCrosswalk(user_info[p].sub).user_mbi_hash = loc[p].mbi_hash

C13_BackfillSticks ==
    \A x \in crosswalks :
        x.user_mbi_hash # None
            => \E y \in crosswalks' : y.user = x.user /\ y.user_mbi_hash = x.user_mbi_hash

C13_Backfill == [](C13_BackfillStored) /\ [][C13_BackfillSticks]_vars

\* the login before stored the mbi hash by backfill; this one brought another
C13_Witness ==
    \E p \in Procs :
        /\ Done(p)
        /\ prev[p].outcome.path = "existing"
        /\ prev[p].writes # <<>> /\ prev[p].writes[1] = "Crosswalk.save"
        /\ prev[p].user_info.sub = user_info[p].sub
        /\ prev[p].loc.mbi_hash # None
        /\ loc[p].mbi_hash \notin {None, prev[p].loc.mbi_hash}
        /\ loc[p].status = "ok"
        /\ StoredCrosswalk(user_info[p].sub).user_mbi_hash = prev[p].loc.mbi_hash

\* C14: for an existing account with a stored mbi hash, a login without mbi
\* (resolved through the hicn lookup, other identifiers matching) returns the
\* existing account and leaves the stored mbi hash as it was.
C14_AbsentMbiKeepsStored ==
    \A p \in Procs :
        (/\ pc[p] = "get_user"
         /\ user_info[p].sub \in users
         /\ loc[p].mbi_hash = None
         /\ StoredCrosswalk(user_info[p].sub).user_mbi_hash # None
         /\ StoredCrosswalk(user_info[p].sub).user_hicn_hash = loc[p].hicn_hash
         /\ StoredCrosswalk(user_info[p].sub).fhir_id = loc[p].fhir_id
         /\ pc'[p] = "done")
            => /\ outcome'[p].status = "ok"
               /\ outcome'[p].user = user_info[p].sub
               /\ crosswalks' = crosswalks

C14_StickyMbi == [][C14_AbsentMbiKeepsStored]_vars

\* the stored crosswalk of the subject differs from what the login brought
IdentifierMismatch(p) ==
    LET c == StoredCrosswalk(user_info[p].sub)
    IN  \/ c.user_hicn_hash # loc[p].hicn_hash
        \/ c.fhir_id # loc[p].fhir_id
        \/ (c.user_mbi_hash # None /\ c.user_mbi_hash # loc[p].mbi_hash)

\* both hashes present and different, or the hicn hash or fhir_id different
IdentifierDrift(p) ==
    LET c == StoredCrosswalk(user_info[p].sub)
    IN  \/ c.user_hicn_hash # loc[p].hicn_hash
        \/ c.fhir_id # loc[p].fhir_id
        \/ (c.user_mbi_hash # None /\ loc[p].mbi_hash # None
            /\ c.user_mbi_hash # loc[p].mbi_hash)

\* C15: on the existing-account path a mismatch of the hicn hash, the fhir_id
\* or (both present) the mbi hash is logged and the call does not fail.
C15_MismatchDoesNotFail ==
    \A p \in Procs :
        (pc[p] = "get_user" /\ user_info[p].sub \in users /\ IdentifierDrift(p))
            => /\ log'[p] # <<>>
               /\ ~(pc'[p] = "done" /\ outcome'[p].status # "ok")

C15_AnomalyLoggedOnly == [][C15_MismatchDoesNotFail]_vars

\* C16: a user matched by subject whose stored hicn hash, fhir_id or non-null
\* mbi hash differs from the supplied value makes the call raise
\* AssertionError, with the Crosswalk left as it was.
C16_MismatchAsserts ==
    \A p \in Procs :
        (pc[p] = "get_user" /\ user_info[p].sub \in users /\ IdentifierMismatch(p))
            => /\ pc'[p] = "done"
               /\ outcome'[p].status = "AssertionError"
               /\ log'[p] # <<>>
               /\ writes'[p] = <<>>
               /\ crosswalks' = crosswalks
               /\ users' = users

C16_AssertionLeavesCrosswalk ==
    [][C16_MismatchAsserts]_vars
    /\ [](\A p \in Procs :
            (Done(p) /\ outcome[p].status = "AssertionError" /\ outcome[p].reached = "get_user")
                => writes[p] = <<>> /\ cw[p] \in crosswalks)

\* a login with another mbi than the stored one has raised
C16_Witness ==
    \E p \in Procs :
        /\ Done(p) /\ outcome[p].status = "AssertionError"
        /\ outcome[p].mesg = "Found user's mbi did not match"
        /\ cw[p] \in crosswalks
        /\ cw[p].user_mbi_hash # None

\* C17: each Crosswalk's user_id_type is the lookup type of the most recent
\* successful resolution for its user; the existing-user path saves it
\* whenever it differs.
C17_ProvenanceCurrent ==
    \A p \in Procs :
        (Done(p) /\ loc[p].status = "ok" /\ user_info[p].sub \in users)
            => StoredCrosswalk(user_info[p].sub).user_id_type = loc[p].hash_lookup_type

(***************************************************************************)
(* Claims about create_beneficiary_record.                                  *)
(***************************************************************************)
\* the arguments of the creation p is about to run
CreateArgs(p) ==
    [username |-> user_info[p].sub, user_hicn_hash |-> loc[p].hicn_hash,
     user_mbi_hash |-> loc[p].mbi_hash, fhir_id |-> loc[p].fhir_id]

\* the messages of the preconditions the arguments violate
ViolatedPreconditions(a) ==
    {m \in {"username can not be None", "username can not be an empty string",
            "user_hicn_hash can not be None", "incorrect user HICN hash format",
            "incorrect user MBI hash format", "fhir_id can not be None",
            "fhir_id can not be an empty string"} :
        \/ m = "username can not be None" /\ a.username = None
        \/ m = "username can not be an empty string" /\ a.username = ""
        \/ m = "user_hicn_hash can not be None" /\ a.user_hicn_hash = None
        \/ m = "incorrect user HICN hash format"
             /\ a.user_hicn_hash \notin HicnHashes \cup {None}
        \/ m = "incorrect user MBI hash format"
             /\ a.user_mbi_hash \notin MbiHashes \cup {None}
        \/ m = "fhir_id can not be None" /\ a.fhir_id = None
        \/ m = "fhir_id can not be an empty string" /\ a.fhir_id = ""}

LoggedMessages(events) == {events[i].mesg : i \in 1..Len(events)}

\* C18: a creation whose subject is empty or missing, whose hicn hash is
\* missing or of the wrong length, whose mbi hash is present and of the wrong
\* length, or whose fhir_id is empty or missing fails (AssertionError) before
\* any uniqueness check and any write, the store unchanged, each violated
\* precondition logged first.
C18_InvalidStep ==
    \A p \in Procs :
        (pc[p] = "create" /\ ViolatedPreconditions(CreateArgs(p)) # {})
            => /\ pc'[p] = "done"
               /\ outcome'[p].status = "AssertionError"
               /\ outcome'[p].reached = "create"
               /\ ViolatedPreconditions(CreateArgs(p)) \subseteq LoggedMessages(log'[p])
               /\ writes'[p] = writes[p]
               /\ users' = users
               /\ crosswalks' = crosswalks

C18_InvalidIdentity ==
    [][C18_InvalidStep]_vars
    /\ [](\A p \in Procs :
            (Done(p) /\ outcome[p].reached = "create")
                => /\ outcome[p].status = "AssertionError"
                   /\ writes[p] = <<>>
                   /\ tx[p] = NoTx)

\* a creation with a hash of the wrong length was refused on a store that
\* holds accounts
C18_Witness ==
    \E p \in Procs :
        /\ Done(p) /\ outcome[p].status = "AssertionError"
        /\ outcome[p].reached = "create"
        /\ loc[p].hicn_hash = "short"
        /\ "incorrect user HICN hash format" \in LoggedMessages(log[p])
        /\ users # {}

ChkPcs == {"chk_user", "chk_hicn", "chk_mbi", "chk_fhir"}

\* the first axis, in the order subject, hicn hash, mbi hash, fhir_id, on which
\* the arguments collide with the store
FirstCollision(a) ==
    IF a.username \in users THEN "user already exists"
    ELSE IF \E x \in crosswalks : x.user_hicn_hash = a.user_hicn_hash
    THEN "user_hicn_hash already exists"
    ELSE IF a.user_mbi_hash # None /\ \E x \in crosswalks : x.user_mbi_hash = a.user_mbi_hash
    THEN "user_mbi_hash already exists"
    ELSE IF \E x \in crosswalks : x.fhir_id = a.fhir_id
    THEN "fhir_id already exists"
    ELSE None

\* C19: a creation that collides with the store on the subject, the hicn hash,
\* the (present) mbi hash or the fhir_id fails with ValidationError whose
\* message, logged before, names the first colliding field in that order; no
\* account and no Crosswalk is created.
C19_DuplicateNamesField ==
    \A p \in Procs :
        /\ pc[p] \in TxPcs => FirstCollision(CreateArgs(p)) = None
        /\ (Done(p) /\ outcome[p].reached \in ChkPcs)
              => /\ outcome[p].status = "ValidationError"
                 /\ outcome[p].mesg = FirstCollision(CreateArgs(p))
                 /\ log[p] # <<>>
                 /\ log[p][Len(log[p])].type = "mymedicare_cb:create_beneficiary_record"
                 /\ log[p][Len(log[p])].mesg = outcome[p].mesg
                 /\ writes[p] = <<>>
                 /\ tx[p] = NoTx

C19_DuplicateLeavesStore ==
    \A p \in Procs :
        (pc[p] \in ChkPcs /\ pc'[p] = "done")
            => users' = users /\ crosswalks' = crosswalks

C19_DuplicateRecord == [](C19_DuplicateNamesField) /\ [][C19_DuplicateLeavesStore]_vars

\* a creation colliding on the subject and on the fhir_id of another account
\* was refused for the subject
C19_Witness ==
    \E p \in Procs :
        /\ Done(p) /\ outcome[p].status = "ValidationError"
        /\ outcome[p].mesg = "user already exists"
        /\ \E x \in crosswalks : x.user # user_info[p].sub /\ x.fhir_id = loc[p].fhir_id

(***************************************************************************)
(* Creation of an account by a login                                       *)
(***************************************************************************)

\* the crosswalks of a subject
CrosswalksOf(sub) == {x \in crosswalks : x.user = sub}

\* the call of p went down the creation path of a login
LoginCreates(p) ==
    /\ CalledFromLogin(p)
    /\ outcome[p].reached \in {"create"} \cup ChkPcs \cup TxPcs

\* C21 (state part): a login that ends on the creation path with an account
\* returns the subject's account, which has exactly one Crosswalk, holding the
\* hashes the login supplied (the mbi hash possibly None), the fhir_id the
\* resolver returned and the resolver's hash_lookup_type as user_id_type; a
\* login on the creation path that raises ValidationError or AssertionError had a
\* collision or a violated precondition
C21_CreatedAsResolved ==
    \A p \in Procs :
        (Done(p) /\ LoginCreates(p)) =>
            /\ outcome[p].status = "ok" =>
                  /\ outcome[p].path = "created"
                  /\ outcome[p].user = user_info[p].sub
                  /\ user_info[p].sub \in users
                  /\ CrosswalksOf(user_info[p].sub) =
                        {Crosswalk(user_info[p].sub, loc[p].hicn_hash, loc[p].mbi_hash,
                                   loc[p].fhir_id, loc[p].hash_lookup_type)}
                  /\ writes[p] = <<"User.save", "Crosswalk.create", "UserProfile.create",
                                   "groups.add">>
            /\ outcome[p].status = "ValidationError" => FirstCollision(CreateArgs(p)) # None
            /\ outcome[p].status = "AssertionError" => ViolatedPreconditions(CreateArgs(p)) # {}

\* C21 (step part): the step that finishes a creation adds one account and one
\* Crosswalk to the store, and nothing else changes in the store
C21_CreatesOneOfEach ==
    \A p \in Procs :
        (pc[p] = "tx_group" /\ Done(p)' /\ outcome'[p].status = "ok") =>
            /\ user_info[p].sub \notin users
            /\ users' = users \cup {user_info[p].sub}
            /\ CrosswalksOf(user_info[p].sub) = {}
            /\ Cardinality(crosswalks') = Cardinality(crosswalks) + 1
            /\ crosswalks \subseteq crosswalks'

\* C21: a login of a subject without an account, with valid inputs and without a
\* collision, creates one account and one Crosswalk holding the supplied hashes,
\* the resolved fhir_id and the resolver's lookup type, and returns the account
C21_CreatesAccount == [](C21_CreatedAsResolved) /\ [][C21_CreatesOneOfEach]_vars

\* an account created through the hicn lookup alone: no mbi, user_id_type "H"
C21_Witness ==
    \E p \in Procs :
        /\ Done(p) /\ LoginCreates(p) /\ outcome[p].path = "created"
        /\ loc[p].mbi_hash = None
        /\ loc[p].requests = <<"H">>
        /\ \E x \in crosswalks : x.user = user_info[p].sub /\ x.user_id_type = "H"
                                  /\ x.user_mbi_hash = None

\* an account created through the mbi lookup
C21_PrimaryCreated ==
    \E p \in Procs :
        /\ Done(p) /\ LoginCreates(p) /\ outcome[p].path = "created"
        /\ loc[p].hash_lookup_type = "M"

(***************************************************************************)
(* What a reconciliation leaves alone                                      *)
(***************************************************************************)

\* C22 (step): over one step of the store, a Crosswalk appears only for an account
\* that appears in the same step; every Crosswalk stays, with its user, its
\* user_hicn_hash and its fhir_id as they were, and its user_mbi_hash as it was unless
\* it was None (user_id_type is free to change); no account goes away
C22_FrameStep ==
    /\ users \subseteq users'
    /\ \A y \in crosswalks' :
          (\A x \in crosswalks : x.user # y.user) =>
              (y.user \notin users /\ y.user \in users')
    /\ \A x \in crosswalks :
          \E y \in crosswalks' :
              /\ y.user = x.user
              /\ y.user_hicn_hash = x.user_hicn_hash
              /\ y.fhir_id = x.fhir_id
              /\ (x.user_mbi_hash # None => y.user_mbi_hash = x.user_mbi_hash)
              /\ (y.user_mbi_hash # x.user_mbi_hash => y.user_mbi_hash # None)
    /\ Cardinality(crosswalks') >= Cardinality(crosswalks)

\* C22: across every step of a sequence of reconciliations a Crosswalk comes with
\* its new account, keeps user_hicn_hash and fhir_id, has user_mbi_hash changed
\* only from None to a hash, and neither Crosswalks nor accounts are deleted
C22_Frame == [][C22_FrameStep]_vars

\* a login has updated an existing Crosswalk twice: the mbi hash filled in and the
\* user_id_type rewritten, next to a Crosswalk of another account
C22_Witness ==
    \E p \in Procs :
        /\ Done(p)
        /\ outcome[p].path = "existing"
        /\ writes[p] = <<"Crosswalk.save", "Crosswalk.save">>
        /\ Cardinality(crosswalks) = 2

(***************************************************************************)
(* The course of one reconciliation                                        *)
(***************************************************************************)

\* places of the existing-account path (lines 86-122)
ExistingPcs == {"get_user", "save_mbi", "save_type"}

\* C23: a call ends with UpstreamServerException or NotFound only out of the
\* resolver call, with ValidationError or AssertionError only out of the creation
\* of a new account, and a call whose resolution succeeded and whose subject
\* has an account ends on the existing-account path with the account returned
C23_StateMachine ==
    \A p \in Procs :
        (Done(p) /\ user_info[p] # NoUserInfo) =>
            /\ outcome[p].status \in {"UpstreamServerException", "NotFound"} =>
                  outcome[p].reached = "resolve"
            /\ outcome[p].status \in {"ValidationError", "AssertionError"} =>
                  outcome[p].reached \in {"create"} \cup ChkPcs
            /\ (loc[p].status = "ok" /\ outcome[p].reached \in ExistingPcs) =>
                  (outcome[p].status = "ok" /\ outcome[p].path = "existing")

(***************************************************************************)
(* How often a failure is logged                                           *)
(***************************************************************************)

\* the events of a call that report a failure of create_beneficiary_record
CreateFailureEvents(p) ==
    SelectSeq(log[p], LAMBDA e : e.type = "mymedicare_cb:create_beneficiary_record")

\* C25: a creation request that is refused, with AssertionError or with
\* ValidationError, has logged that failure exactly once, however many
\* preconditions it violates
C25_FailureLoggedOnce ==
    \A p \in Procs :
        (Done(p) /\ outcome[p].reached \in {"create"} \cup ChkPcs
                 /\ outcome[p].status \in {"AssertionError", "ValidationError"}) =>
            Len(CreateFailureEvents(p)) = 1

(***************************************************************************)
(* What the audit events of a request carry                                *)
(***************************************************************************)

\* the events of the request of p: those of authenticate and of the resolver,
\* then those of get_and_update_user and create_beneficiary_record
AuditEvents(p) == http[p].events \o log[p]

\* the values an event carries, the fields of its crosswalk included
EventValues(e) ==
    {e[f] : f \in DOMAIN e \ {"crosswalk"}}
    \cup (IF "crosswalk" \in DOMAIN e
          THEN {e.crosswalk[f] : f \in DOMAIN e.crosswalk}
          ELSE {})

ResolverFailureAnswered(p, exception) ==
    /\ http[p].stage = "responded"
    /\ pc[p] = "done"
    /\ outcome[p].reached = "resolve"
    /\ outcome[p].status = exception

\* C27: the callback answers an UpstreamServerException of the resolver with
\* 502, a NotFound with 404, and a failed directory request (HTTPError) with
\* neither; in all three cases no Approval is created and no redirect is returned
C27_ResolverFailureResponses ==
    \A p \in Procs :
        /\ ResolverFailureAnswered(p, "UpstreamServerException") => http[p].response.status = 502
        /\ ResolverFailureAnswered(p, "NotFound") => http[p].response.status = 404
        /\ ResolverFailureAnswered(p, "HTTPError") => http[p].response.status \notin {404, 502}
        /\ (\E e \in {"UpstreamServerException", "NotFound", "HTTPError"} :
                ResolverFailureAnswered(p, e)) =>
              /\ ~http[p].approval
              /\ http[p].response.kind # "HttpResponseRedirect"
              /\ http[p].response.status # 302

\* a failed directory request has left the view as an exception
C27_Witness ==
    \E p \in Procs :
        /\ ResolverFailureAnswered(p, "HTTPError")
        /\ http[p].response.kind = "raised"

\* the other two failures have been answered
C27_Answered ==
    \E p \in Procs : ResolverFailureAnswered(p, "NotFound") /\ http[p].response.status = 404

(***************************************************************************)
(* An empty mbi                                                            *)
(***************************************************************************)

\* the userinfo answer of the request of p has an mbi that is empty once
\* stripped and upper-cased
BlankMbi(p) == InRequest(p) /\ Upper(Strip(http[p].user_info.mbi)) = ""

\* C28: an mbi that is the empty string after stripping and upper-casing is
\* treated as absent: the start event carries None as mbi hash, the request is
\* not rejected for its mbi format, the resolver gets None as mbi hash and
\* issues no mbi lookup, and a Crosswalk created for the subject has
\* user_mbi_hash None
C28_BlankMbiIsAbsent ==
    \A p \in Procs :
        BlankMbi(p) =>
            /\ http[p].events[1].sls_mbi_hash = None
            /\ http[p].events[1].sls_status_mesg # "User info MBI format is not valid. "
            /\ loc[p].mbi_hash = None
            /\ \A i \in 1..Len(loc[p].requests) : loc[p].requests[i] # "M"
            /\ (Done(p) /\ outcome[p].path = "created") =>
                  \A x \in CrosswalksOf(user_info[p].sub) : x.user_mbi_hash = None

\* a request whose mbi is a blank has created an account through the hicn
\* lookup alone
C28_Witness ==
    \E p \in Procs :
        /\ BlankMbi(p)
        /\ http[p].user_info.mbi = " "
        /\ http[p].stage = "responded"
        /\ Done(p) /\ outcome[p].path = "created"
        /\ loc[p].requests = <<"H">>
        /\ \E x \in CrosswalksOf(user_info[p].sub) : x.user_mbi_hash = None

(***************************************************************************)
(* Reuse and minimum age of passwords                                      *)
(***************************************************************************)

\* the step is an attempt to change the password
ChangeAttempted == pw.stage = "ready" /\ pw'.changes = pw.changes - 1

\* the rows of the history that hold the password of the attempt
Matching == {e \in pw.history : e.password = pw'.new_password}

\* the attempt was refused: ValidationError with code password_used, and the
\* stored password and the history are as before
Refused ==
    /\ pw'.error.code = "password_used"
    /\ pw'.password = pw.password
    /\ pw'.history = pw.history

\* C29 (step): an attempt whose new password is on record less than
\* password_reuse_interval seconds ago, or on record at all when the interval
\* is not positive, is refused; one whose password is on record only longer ago
\* than the interval is not refused for reuse
C29_ReuseStep ==
    ChangeAttempted =>
        /\ (pw.password_reuse_interval > 0
            /\ \E e \in Matching : pw.now - e.date < pw.password_reuse_interval) => Refused
        /\ (pw.password_reuse_interval <= 0 /\ Matching # {}) => Refused
        /\ (pw.password_reuse_interval > 0
            /\ \A e \in Matching : pw.now - e.date > pw.password_reuse_interval) =>
              pw'.error.mesg # MesgReuse

\* C29: validate refuses with code password_used a new password that the
\* history holds within the reuse interval (anywhere, without an interval) and
\* leaves the stored password alone; a password on record only before the
\* interval is not refused for reuse
C29_ReusePolicy == [][C29_ReuseStep]_vars

\* a password used before has been refused for reuse, after two changes
C29_Witness ==
    /\ pw.stage = "ready"
    /\ pw.error.mesg = MesgReuse
    /\ pw.password_reuse_interval > 0
    /\ pw.new_password = "pw0"
    /\ pw.password = "pw1"

\* a password on record before the interval has been accepted again
C29_OldAccepted ==
    /\ pw.stage = "ready"
    /\ pw.password_reuse_interval > 0
    /\ pw.new_password = "pw0" /\ pw.password = "pw0" /\ pw.error = NoValidationError
    /\ \E e \in pw.history : e.password = "pw1"

\* the age of the last row of the history
LastChangeAge == pw.now - First(pw.history).date

\* C30: with password_min_age > 0, an attempt made while the most recent row
\* of the history is at most password_min_age seconds old is refused and the
\* stored password stays; an attempt made later, with a password that is
\* not refused for reuse, is accepted and the stored password is the new one
C30_MinAgeStep ==
    (ChangeAttempted /\ pw.password_min_age > 0) =>
        /\ LastChangeAge <= pw.password_min_age => Refused
        /\ (LastChangeAge > pw.password_min_age /\ pw'.error.mesg # MesgReuse) =>
              (pw'.error = NoValidationError /\ pw'.password = pw'.new_password)

C30_MinAge == [][C30_MinAgeStep]_vars

(***************************************************************************)
(* Expiry of passwords                                                     *)
(***************************************************************************)

\* a configuration whose rows are all at least password_expire seconds old
AllOld(h) ==
    /\ h # {}
    /\ \A e \in h : pw.now - e.date >= pw.password_expire

\* C31: password_expired answers False for staff members, for superusers and
\* whenever password_expire is zero or negative; for anybody else it answers
\* True exactly when some password-history configuration of the user has a
\* most recent entry that is at least password_expire seconds old, so a user
\* without any history entry is answered False
C31_PasswordExpired ==
    pw.stage = "returned" =>
        /\ (pw.is_staff \/ pw.is_superuser) => ~pw.expired
        /\ pw.password_expire <= 0 => ~pw.expired
        /\ (\A i \in 1..Len(pw.configs) : pw.configs[i] = {}) => ~pw.expired
        /\ (~pw.is_staff /\ ~pw.is_superuser /\ pw.password_expire > 0) =>
              (pw.expired <=> \E i \in 1..Len(pw.configs) : AllOld(pw.configs[i]))

\* an ordinary user reported expired because of the first of two
\* configurations, the second one holding a recent entry
C31_Witness ==
    /\ pw.stage = "returned"
    /\ pw.expired
    /\ ~pw.is_staff /\ ~pw.is_superuser
    /\ Len(pw.configs) = 2
    /\ AllOld(pw.configs[1])
    /\ pw.configs[2] # {}
    /\ ~AllOld(pw.configs[2])

(***************************************************************************)
(* Requests authenticate turns away                                        *)
(***************************************************************************)

\* the request of p lacks the code parameter
CodeMissing(p) == InRequest(p) /\ http[p].code = None

\* the request of p got a userinfo answer with an empty subject, an empty hicn
\* or an mbi that is not empty and fails the format validation
IdentityRefused(p) ==
    /\ InRequest(p)
    /\ http[p].code # None /\ http[p].token_ok /\ http[p].userinfo_ok
    /\ \/ Strip(http[p].user_info.sub) = ""
       \/ Strip(http[p].user_info.hicn) = ""
       \/ /\ Upper(Strip(http[p].user_info.mbi)) # ""
          /\ ~IsMbiFormatValid(Upper(Strip(http[p].user_info.mbi)))

\* the request of p has one event, a start event with the given status
StartEventOnly(p, sls_status) ==
    /\ Len(http[p].events) = 1
    /\ http[p].events[1].type = "Authentication:start"
    /\ http[p].events[1].sls_status = sls_status

\* get_and_update_user was not invoked for p: no directory lookup, no write
NotInvoked(p) ==
    /\ pc[p] = "idle"
    /\ loc[p] = NoLoc
    /\ writes[p] = <<>>
    /\ outcome[p] = NoOutcome
    /\ tx[p] = NoTx

C32_Rejected ==
    \A p \in Procs :
        /\ CodeMissing(p) =>
              /\ http[p].exception = "ValidationError"
              /\ StartEventOnly(p, "FAIL")
              /\ NotInvoked(p)
        /\ IdentityRefused(p) =>
              /\ http[p].exception = "UpstreamServerException"
              /\ StartEventOnly(p, "FAIL")
              /\ NotInvoked(p)
        /\ (InRequest(p) /\ pc[p] # "idle") =>
              /\ http[p].events[1].type = "Authentication:start"
              /\ http[p].events[1].sls_status = "OK"

C32_StoreStep ==
    \A p \in Procs :
        (CodeMissing(p)' \/ IdentityRefused(p)') => UNCHANGED storeVars

\* C32: when the code parameter is missing authenticate raises ValidationError,
\* and when the provider's subject is empty, or the hicn is empty, or a
\* non-empty mbi fails the format validation it raises
\* UpstreamServerException; in each case it has logged a FAIL start event, has
\* issued no directory lookup and has written no account and no Crosswalk; and
\* whenever get_and_update_user has been invoked, the OK start event was
\* logged before it
C32_RejectedBeforeLookup == [](C32_Rejected) /\ [][C32_StoreStep]_vars

\* a request with an empty hicn was turned away with a 502 on a store holding
\* Crosswalks
C32_Witness ==
    \E p \in Procs :
        /\ IdentityRefused(p)
        /\ Strip(http[p].user_info.sub) # ""
        /\ Strip(http[p].user_info.hicn) = ""
        /\ http[p].stage = "responded"
        /\ http[p].response.status = 502
        /\ http[p].events[1].sls_status_mesg = "User info HICN cannot be empty."
        /\ crosswalks # {}

\* the other rejections have happened too
C32_Others ==
    /\ \E p \in Procs : CodeMissing(p) /\ http[p].response.status = 400
    /\ \E p \in Procs : IdentityRefused(p) /\ Strip(http[p].user_info.sub) = ""

(***************************************************************************)
(* Callbacks answered 400                                                  *)
(***************************************************************************)

\* the callback of p has answered with status 400
Answered400(p) == http[p].stage = "responded" /\ http[p].response.status = 400

\* C33: a callback that ends with a 400 response (the code parameter missing,
\* the state parameter missing, or a state no AnonUserState has) has created
\* no account, no Crosswalk and no Approval: it has written nothing and the
\* store is the one the request found
C33_NothingCreatedOn400 ==
    \A p \in Procs :
        Answered400(p) =>
            /\ writes[p] = <<>>
            /\ ~http[p].approval
            /\ crosswalks \in SeedStores
            /\ users = {x.user : x \in crosswalks}

\* a callback without the state parameter was answered 400 after its login had
\* created the account and the Crosswalk of a new subject
C33_CreatedThenRefused ==
    \E p \in Procs :
        /\ Answered400(p)
        /\ http[p].state = None
        /\ outcome[p].path = "created"
        /\ writes[p] # <<>>
        /\ CrosswalksOf(user_info[p].sub) # {}

(***************************************************************************)
(* The settings of a constructed validator                                 *)
(***************************************************************************)

\* the pairs <<a, b>> of settings the validator wants ordered a <= b
Orderings ==
    {<<pw.password_min_age, pw.password_expire>>,
     <<pw.password_expire, pw.password_reuse_interval>>,
     <<pw.password_min_age, pw.password_reuse_interval>>}

\* two positive settings in the wrong order
Disordered(pair) == pair[1] > 0 /\ pair[2] > 0 /\ pair[1] > pair[2]

C34_Refused ==
    /\ pw.stage = "AssertionError"
    /\ pw.password_reuse_interval <= 0
    /\ pw.password_min_age > pw.password_expire
    /\ pw.password_expire > 0

\* a validator constructed although a negative password_reuse_interval is
\* below its password_min_age, and a zero password_expire as well
C34_Exempt ==
    /\ pw.stage = "ready"
    /\ pw.password_reuse_interval < 0
    /\ pw.password_expire = 0
    /\ pw.password_min_age > 0

(***************************************************************************)
(* Expired and too recent to change                                        *)
(***************************************************************************)

\* password_expired reports the password of the user, who is neither staff
\* nor superuser, as expired
Expired ==
    password_expired(FALSE, FALSE, pw.password_expire, <<pw.history>>, pw.now)

\* the minimum-age rule of validate would refuse a change now
Blocked ==
    TooSoon(Passwds(pw.history, pw.now, pw.password_reuse_interval), pw.now,
            pw.password_min_age)

C35_Step == (ChangeAttempted /\ Expired) => pw'.error.mesg # MesgMinAge

\* C35: for every accepted configuration and every time since the last
\* password change, a user whose password is reported expired is not kept from
\* changing it by the minimum-age rule: expired and too recent to change never
\* hold at the same instant, and no attempt made with an expired password is
\* refused for the minimum age
C35_ExpiredNotBlocked ==
    /\ [](pw.stage = "ready" => ~(Expired /\ Blocked))
    /\ [][C35_Step]_vars

\* an attempt to leave an expired password was refused for the minimum age
C35_ExpiredAndRefused ==
    /\ pw.stage = "ready"
    /\ Expired
    /\ pw.error.mesg = MesgMinAge
    /\ pw.password_min_age = pw.password_expire
    /\ LastChangeAge = pw.password_expire

(***************************************************************************)
(* The classification of a directory response as the specification states  *)
(* it (section 4.2), used to state the claims about the resolver.           *)
(***************************************************************************)
\* a successful response carrying the integer total the interface declares
WellFormed(resp) == resp.ok /\ resp.hasTotal

IsAmbiguousMatch(resp) == resp.total > 1 \/ Len(resp.entry) > 1
IsSingleMatch(resp) == resp.hasEntry /\ Len(resp.entry) = 1 /\ resp.total = 1
IsNoMatch(resp) == ~IsAmbiguousMatch(resp) /\ ~IsSingleMatch(resp)

Returned == ret # NoResult
PrimaryAsked == call.mbi_hash # None
\* the audit event the mbi lookup left, when it did not match
PrimaryEvent == ret.log[1]
PrimaryLoggedDuplicate ==
    /\ Len(ret.log) >= 1
    /\ PrimaryEvent.type = "FhirIDNotFound"
    /\ PrimaryEvent.hash_lookup_type = "M"
    /\ PrimaryEvent.hash_lookup_mesg \in {MesgDupTotal, MesgDupEntry}
PrimaryLoggedNotFound ==
    /\ Len(ret.log) >= 1
    /\ PrimaryEvent.type = "FhirIDNotFound"
    /\ PrimaryEvent.hash_lookup_type = "M"
    /\ PrimaryEvent.hash_lookup_mesg = MesgNotFoundMbi
\* the hicn lookup was issued and answered
FallbackAnswered == ret.requests[Len(ret.requests)] = "H" /\ call.respH.ok

C4_DocumentedOrder ==
    /\ (Returned /\ PrimaryAsked /\ WellFormed(call.respM) /\ ~IsSingleMatch(call.respM))
          => ret.requests = <<"M", "H">>
    /\ (Returned /\ ret.status = "UpstreamServerException")
          => /\ FallbackAnswered
             /\ IsAmbiguousMatch([call.respH EXCEPT !.total = GetTotal(call.respH)])
    /\ (Returned /\ ret.status = "NotFound")
          => /\ FallbackAnswered
             /\ ~(WellFormed(call.respH) /\ IsSingleMatch(call.respH))
             /\ ~(PrimaryAsked /\ WellFormed(call.respM) /\ IsSingleMatch(call.respM))
             /\ \A i \in 1..Len(ret.log) : ret.log[i].type = "FhirIDNotFound"

C4_Witness ==
    /\ Returned /\ PrimaryAsked /\ WellFormed(call.respM) /\ IsNoMatch(call.respM)
    /\ ret.requests = <<"M", "H">>
    /\ ret.status = "UpstreamServerException"

\* C6: with primary_hash absent no primary request is issued; the only request
\* of the resolution is the fallback one.
C6_AbsentPrimaryNotAsked ==
    (Returned /\ call.mbi_hash = None) => ret.requests = <<"H">>

C6_Witness ==
    Returned /\ call.mbi_hash = None /\ ret.status = "ok" /\ ret.requests = <<"H">>

\* C7: a single match of the primary lookup (one entry, total = 1) returns
\* that entry's id with provenance "M" and no fallback request is issued.
C7_PrimarySingleMatch ==
    (Returned /\ PrimaryAsked /\ WellFormed(call.respM) /\ IsSingleMatch(call.respM))
        => /\ ret.status = "ok"
           /\ ret.fhir_id = call.respM.entry[1]
           /\ ret.hash_lookup_type = "M"
           /\ ret.requests = <<"M">>

C7_Witness ==
    /\ Returned /\ PrimaryAsked /\ WellFormed(call.respM) /\ IsSingleMatch(call.respM)
    /\ ret.status = "ok" /\ ret.fhir_id = "f1"

\* C8: with primary_hash absent or the primary lookup NoMatch, the outcome is
\* that of the fallback lookup: single match returns its id with provenance
\* "H", ambiguous raises UpstreamServerException, no match raises NotFound.
C8_FallbackDecides ==
    (/\ Returned
     /\ ~PrimaryAsked \/ (WellFormed(call.respM) /\ IsNoMatch(call.respM))
     /\ WellFormed(call.respH))
        => /\ IsSingleMatch(call.respH)
                => /\ ret.status = "ok"
                   /\ ret.fhir_id = call.respH.entry[1]
                   /\ ret.hash_lookup_type = "H"
           /\ IsAmbiguousMatch(call.respH) => ret.status = "UpstreamServerException"
           /\ IsNoMatch(call.respH) => ret.status = "NotFound"

\* C9: for both lookup kinds a successful response with declared total > 1 or
\* with more than one entry is classified AmbiguousMatch, for every
\* combination of total and entry count.
C9_AmbiguousClassified ==
    /\ (Returned /\ PrimaryAsked /\ WellFormed(call.respM) /\ IsAmbiguousMatch(call.respM))
          => PrimaryLoggedDuplicate
    /\ (Returned /\ ret.requests # <<>> /\ FallbackAnswered
            /\ WellFormed(call.respH) /\ IsAmbiguousMatch(call.respH))
          => ret.status = "UpstreamServerException"

\* C10: for both lookup kinds a successful response is a SingleMatch exactly
\* when it has one entry and total = 1; every other non-ambiguous well-formed
\* response is NoMatch and produces no other fault.
C10_SingleOrNoMatch ==
    /\ (Returned /\ PrimaryAsked /\ WellFormed(call.respM) /\ ~IsAmbiguousMatch(call.respM))
          => IF IsSingleMatch(call.respM)
             THEN ret.status = "ok" /\ ret.hash_lookup_type = "M"
             ELSE PrimaryLoggedNotFound /\ ret.requests = <<"M", "H">>
    /\ (Returned /\ ret.requests # <<>> /\ FallbackAnswered
            /\ WellFormed(call.respH) /\ ~IsAmbiguousMatch(call.respH))
          => IF IsSingleMatch(call.respH)
             THEN ret.status = "ok" /\ ret.hash_lookup_type = "H"
             ELSE ret.status = "NotFound"

(***************************************************************************)
(* Audit events of the resolver                                            *)
(***************************************************************************)

\* the last event a resolver call logged
FinalEvent == ret.log[Len(ret.log)]

\* C24: when the resolver returns or raises it has logged at least one event,
\* each event carries the two hashes of the call, a hash_lookup_type and a
\* hash_lookup_mesg, and the hash_lookup_type of the last event is the kind of
\* the lookup that decided the outcome
C24_EveryBranchLogs ==
    Returned =>
        /\ ret.log # <<>>
        /\ \A i \in 1..Len(ret.log) :
              /\ ret.log[i].mbi_hash = call.mbi_hash
              /\ ret.log[i].hicn_hash = call.hicn_hash
              /\ ret.log[i].hash_lookup_type \in {"M", "H"}
              /\ ret.log[i].hash_lookup_mesg # None
        /\ FinalEvent.hash_lookup_type = ret.hash_lookup_type

====
